---- MODULE Spec2Model ----
(***************************************************************************)
(* F1 telemetry core: the TelemetryState store (telemetry_state.py) and    *)
(* the UdpListener receive loop (f1_udp_client.py).                        *)
(*                                                                         *)
(* Time is counted in whole seconds.  A history row is the record of the   *)
(* seven buffer columns.  A DataFrame is the sequence of its rows; the     *)
(* empty DataFrame is the empty sequence.  An Optional[int] argument is a  *)
(* sequence: <<>> for None, <<n>> for the integer n.                       *)
(***************************************************************************)
EXTENDS Integers, Sequences, FiniteSets, TLC

\* ------------------------------------------------------------------ bounds

\* Capacity of the ring buffer (Config.MAX_HISTORY_LENGTH is 2400 in the
\* program; the model checks a small ring).
MAX_HISTORY_LENGTH == 3

\* update_telemetry calls in a run: enough to wrap the ring twice.
MaxWrites == 2 * MAX_HISTORY_LENGTH + 1

\* ------------------------------------------------------- program constants

\* Seconds without an update after which get_snapshot reports staleness.
StaleAfter == 2

\* Seconds the clock advances during a run: to the staleness threshold and
\* one second past it.
MaxTicks == StaleAfter + 1

Min(a, b) == IF a <= b THEN a ELSE b
Max(a, b) == IF a >= b THEN a ELSE b

None == <<>>
Some(n) == <<n>>

\* Python truthiness of an Optional[int]: None and 0 are falsy.
Truthy(limit) == limit # None /\ limit[1] # 0

VARIABLES
    \* TelemetryState fields
    telemetry, lap_data, session,
    last_update_time, is_connected, start_time,
    history_index, history_count, buffer,
    \* list objects on the heap: object id -> contents
    lists,
    \* time.time()
    now,
    \* history of the calls (not program state): number of update_telemetry
    \* calls, and the rows of the last MAX_HISTORY_LENGTH of them, oldest first
    writes, recent,
    \* the caller: the last operation called, its argument and what it returned
    op, hist_limit, hist_ret, snap,
    \* threads using the store concurrently: lock holder, program counters,
    \* locals, and the store as it was when the lock was last released
    lock, pc, local, committed,
    \* UdpListener: thread position, fields, the network, the owner
    lpc, running, sock_open, inbox, cur, received, stop_called,
    \* whether bind raised, and the error the owner of the listener has been
    \* handed ("none" while it has been handed nothing)
    bind_failed, owner_error,
    \* a pure function under check: its name, its arguments and its result
    fname, fin, fout,
    \* TelemetryState under construction: the class attribute _instance,
    \* each object's _initialized attribute, the objects allocated, the
    \* times the body of __init__ has run, what each call has returned
    _instance, _initialized, objects, init_runs, constructed

storeVars == <<telemetry, lap_data, session, last_update_time, is_connected,
               start_time, history_index, history_count, buffer>>
ghostVars == <<writes, recent>>
callerVars == <<op, hist_limit, hist_ret, snap>>
concVars == <<lock, pc, local, committed>>
listenerVars == <<lpc, running, sock_open, inbox, cur, received, stop_called,
                  bind_failed, owner_error>>
pureVars == <<fname, fin, fout>>
singletonVars == <<_instance, _initialized, objects, init_runs, constructed>>

vars == <<storeVars, lists, now, ghostVars, callerVars, concVars, listenerVars,
          pureVars, singletonVars>>

\* ------------------------------------------------------------ the store

history_maxlen == MAX_HISTORY_LENGTH

Slots == 0 .. (history_maxlen - 1)

\* dict.get(key, 0)
Get(data, key) == IF key \in DOMAIN data THEN data[key] ELSE 0

\* the record replaced by the sample instead of merged with it
DictReplace(d, data) == data

\* dict.update(data): keys of data replace or extend those of d
DictUpdate(d, data) == data @@ d

\* _init_circular_buffer: np.zeros for every column
ZeroRow == [time_stamp |-> 0, speed_kph |-> 0, rpm |-> 0, gear |-> 0,
            throttle_pct |-> 0, brake_pct |-> 0, drs |-> 0]

\* The row update_telemetry writes: the clamps of rpm (uint16) and gear
\* (int8), and throttle and brake as percentages.
Row(data, relative_time) ==
    [time_stamp   |-> relative_time,
     speed_kph    |-> Get(data, "speed"),
     rpm          |-> Min(Get(data, "rpm"), 65535),
     gear         |-> Max(-128, Min(Get(data, "gear"), 127)),
     throttle_pct |-> Get(data, "throttle") * 100,
     brake_pct    |-> Get(data, "brake") * 100,
     drs          |-> Get(data, "drs")]

\* The initial tyres_surface_temp list is object 0.
InitTelemetry ==
    [speed |-> 0, throttle |-> 0, brake |-> 0, gear |-> 0, rpm |-> 0,
     drs |-> 0, rev_lights_percent |-> 0, engine_temp |-> 0,
     tyres_surface_temp |-> 0]

InitLapData ==
    [current_lap_time |-> 0, last_lap_time |-> 0, best_lap_time |-> 0,
     sector1_time |-> 0, sector2_time |-> 0, lap_distance |-> 0,
     total_distance |-> 0, car_position |-> 0, current_lap |-> 0,
     pit_status |-> 0, sector |-> 0, current_lap_invalid |-> 0,
     penalties |-> 0]

InitSession ==
    [track_id |-> -1, formula |-> 0, session_type |-> 0,
     track_temperature |-> 0, air_temperature |-> 0, total_laps |-> 0,
     session_time_left |-> 0]

\* cursor advance, modulo the capacity
NextIndex(i) == (i + 1) % history_maxlen

NextCountUncapped(c) == c + 1

\* count advance, capped at the capacity
NextCount(c) == Min(c + 1, history_maxlen)

\* The body of update_telemetry (inside the lock).
update_telemetry(data) ==
    LET t == now
        st == IF history_count = 0 THEN t ELSE start_time
        idx == history_index
    IN  /\ telemetry' = DictUpdate(telemetry, data)
        /\ last_update_time' = t
        /\ is_connected' = TRUE
        /\ start_time' = st
        /\ buffer' = [buffer EXCEPT ![idx] = Row(data, t - st)]
        /\ history_index' = NextIndex(history_index)
        /\ history_count' = NextCount(history_count)
        /\ UNCHANGED <<lap_data, session>>

update_lap_data(data) ==
    /\ lap_data' = DictUpdate(lap_data, data)
    /\ last_update_time' = now
    /\ is_connected' = TRUE
    /\ UNCHANGED <<telemetry, session, start_time, history_index,
                   history_count, buffer>>

update_session(data) ==
    /\ session' = DictUpdate(session, data)
    /\ last_update_time' = now
    /\ is_connected' = TRUE
    /\ UNCHANGED <<telemetry, lap_data, start_time, history_index,
                   history_count, buffer>>

\* the staleness test of get_snapshot
Stale(t) == t - last_update_time > StaleAfter

\* is_connected as get_snapshot leaves it
ConnectedAfterCheck == IF Stale(now) THEN FALSE ELSE is_connected

\* dict.copy(): a new dict with the same values; a value that is a list is
\* the same list object (the same object id).
DictCopy(d) == [k \in DOMAIN d |-> d[k]]

\* The value get_snapshot returns.
Snapshot ==
    [telemetry |-> DictCopy(telemetry),
     lap_data  |-> DictCopy(lap_data),
     session   |-> DictCopy(session),
     connected |-> ConnectedAfterCheck]

\* a read that counts as a sign of life
get_snapshot_refreshing ==
    /\ is_connected' = TRUE
    /\ last_update_time' = now
    /\ UNCHANGED <<telemetry, lap_data, session, start_time, history_index,
                   history_count, buffer>>

\* The body of get_snapshot (inside the lock): its effect on the store.
get_snapshot ==
    /\ is_connected' = ConnectedAfterCheck
    /\ UNCHANGED <<telemetry, lap_data, session, last_update_time,
                   start_time, history_index, history_count, buffer>>

\* np.arange(a, b)
Arange(a, b) == [i \in 1 .. Max(b - a, 0) |-> a + i - 1]

SliceStartOffByOne(limit) ==
    IF history_count < history_maxlen
    THEN 0
    ELSE IF Truthy(limit) /\ limit[1] < history_count
         THEN (history_index - limit[1] + 1) % history_maxlen
         ELSE history_index

SliceStart(limit) ==
    IF history_count < history_maxlen
    THEN 0
    ELSE IF Truthy(limit) /\ limit[1] < history_count
         THEN (history_index - limit[1]) % history_maxlen
         ELSE history_index

SliceEnd ==
    IF history_count < history_maxlen THEN history_count ELSE history_index

IndicesHeadFirst(limit) ==
    IF SliceEnd > SliceStart(limit)
    THEN Arange(SliceStart(limit), SliceEnd)
    ELSE Arange(0, SliceEnd) \o Arange(SliceStart(limit), history_maxlen)

\* the buffer positions get_history_df reads, in the order of the result
Indices(limit) ==
    IF SliceEnd > SliceStart(limit)
    THEN Arange(SliceStart(limit), SliceEnd)
    ELSE Arange(SliceStart(limit), history_maxlen) \o Arange(0, SliceEnd)

\* the DataFrame built from the seven columns at these positions (a copy)
Frame(indices) == [i \in 1 .. Len(indices) |-> buffer[indices[i]]]

HistoryNoEmptyCheck(limit) == Frame(Indices(limit))

\* The value get_history_df(limit) returns; the store is left as it is.
get_history_df(limit) ==
    IF history_count = 0 THEN <<>> ELSE Frame(Indices(limit))

\* ------------------------------------------------- the store, call by call

\* Samples passed to update_telemetry: a full one, and a partial one whose
\* rpm and gear are outside the ranges of the buffer columns.
TelemetrySamples ==
    { [speed |-> 300, throttle |-> 1, brake |-> 0, gear |-> 8,
       rpm |-> 11000, drs |-> 1],
      [speed |-> 80, brake |-> 1, gear |-> 200, rpm |-> 70000] }

LapSamples ==
    { [current_lap_time |-> 5000, current_lap |-> 1] }

SessionSamples ==
    { [weather |-> 1, track_id |-> 5, total_laps |-> 50] }

Limits == {None} \cup {Some(n) : n \in 0 .. (history_maxlen + 1)}

NoSnap == <<>>

InitLists == [o \in {0} |-> <<0, 0, 0, 0>>]

InitStore ==
    /\ telemetry = InitTelemetry
    /\ lap_data = InitLapData
    /\ session = InitSession
    /\ last_update_time = 0
    /\ is_connected = FALSE
    /\ start_time = now
    /\ history_index = 0
    /\ history_count = 0
    /\ buffer = [i \in Slots |-> ZeroRow]
    /\ lists = InitLists

InitCaller ==
    /\ op = "init"
    /\ hist_limit = None
    /\ hist_ret = <<>>
    /\ snap = NoSnap

InitGhost ==
    /\ writes = 0
    /\ recent = <<>>

\* No thread is inside the store.
InitConc ==
    /\ lock = "free"
    /\ pc = <<>>
    /\ local = <<>>
    /\ committed = <<>>

\* No listener exists.
InitNoListener ==
    /\ lpc = "none"
    /\ running = FALSE
    /\ sock_open = FALSE
    /\ inbox = <<>>
    /\ cur = <<>>
    /\ received = 0
    /\ stop_called = FALSE
    /\ bind_failed = FALSE
    /\ owner_error = "none"

\* "state = TelemetryState()" has run at import: the one object exists,
\* its body has run once, and no other construction is under way.
InitConstructed ==
    /\ _instance = <<1>>
    /\ _initialized = <<TRUE>>
    /\ objects = 1
    /\ init_runs = 1
    /\ constructed = <<>>

\* No pure function is under check.
InitNoPure ==
    /\ fname = "none"
    /\ fin = <<>>
    /\ fout = <<>>

\* The clock starts more than StaleAfter seconds after the epoch.
ClockStart == StaleAfter + 1

Init ==
    /\ now = ClockStart
    /\ InitStore
    /\ InitGhost
    /\ InitCaller
    /\ InitConstructed
    /\ InitConc
    /\ InitNoListener
    /\ InitNoPure

\* The rows of the last history_maxlen writes after one more write.
PushRecent(r, row) ==
    IF Len(r) < history_maxlen THEN Append(r, row) ELSE Append(Tail(r), row)

\* What the history of calls becomes with one more update_telemetry(data).
NoteWrite(data) ==
    /\ writes' = writes + 1
    /\ recent' = PushRecent(recent, Row(data, now - start_time'))

Called(name) ==
    /\ op' = name
    /\ hist_limit' = None
    /\ hist_ret' = <<>>
    /\ snap' = NoSnap

UpdateTelemetry ==
    /\ writes < MaxWrites
    /\ \E data \in TelemetrySamples :
          /\ update_telemetry(data)
          /\ NoteWrite(data)
    /\ Called("update_telemetry")
    /\ UNCHANGED <<lists, now, concVars, listenerVars, pureVars, singletonVars>>

UpdateLapData ==
    /\ \E data \in LapSamples : update_lap_data(data)
    /\ Called("update_lap_data")
    /\ UNCHANGED <<lists, now, ghostVars, concVars, listenerVars, pureVars, singletonVars>>

UpdateSession ==
    /\ \E data \in SessionSamples : update_session(data)
    /\ Called("update_session")
    /\ UNCHANGED <<lists, now, ghostVars, concVars, listenerVars, pureVars, singletonVars>>

GetSnapshot ==
    /\ get_snapshot
    /\ op' = "get_snapshot"
    /\ snap' = Snapshot
    /\ hist_limit' = None
    /\ hist_ret' = <<>>
    /\ UNCHANGED <<lists, now, ghostVars, concVars, listenerVars, pureVars, singletonVars>>

GetHistoryDf ==
    /\ \E limit \in Limits :
          /\ hist_limit' = limit
          /\ hist_ret' = get_history_df(limit)
    /\ op' = "get_history_df"
    /\ snap' = NoSnap
    /\ UNCHANGED <<storeVars, lists, now, ghostVars, concVars, listenerVars, pureVars, singletonVars>>

\* A second passes.
Tick ==
    /\ now < ClockStart + MaxTicks
    /\ now' = now + 1
    /\ Called("tick")
    /\ UNCHANGED <<storeVars, lists, ghostVars, concVars, listenerVars, pureVars, singletonVars>>

Next ==
    \/ UpdateTelemetry
    \/ UpdateLapData
    \/ UpdateSession
    \/ GetSnapshot
    \/ GetHistoryDf
    \/ Tick

Spec == Init /\ [][Next]_vars

\* ------------------------------------------- claims about the ring buffer

\* the last n rows of r, oldest first
LastRows(r, n) == SubSeq(r, Len(r) - n + 1, Len(r))

Full == history_count = history_maxlen

AskedLimit == hist_limit[1]

\* C1: the count stays within 0..capacity and equals min(number of
\* update_telemetry calls, capacity); the cursor stays within 0..capacity-1
\* and equals the number of calls modulo the capacity; and once the buffer
\* is full the cursor is on the slot of the oldest row, the slots after it
\* (cyclically) holding the later rows in write order, so that each write
\* replaces the oldest row.
C1_RingInvariant ==
    /\ 0 <= history_count /\ history_count <= history_maxlen
    /\ 0 <= history_index /\ history_index < history_maxlen
    /\ history_count = Min(writes, history_maxlen)
    /\ history_index = writes % history_maxlen
    /\ Len(recent) = history_count
    /\ Full => \A j \in 1 .. history_maxlen :
                 buffer[(history_index + j - 1) % history_maxlen] = recent[j]

\* the ring has been written around more than once and is back at slot 0
C1_Witness ==
    /\ op = "update_telemetry"
    /\ writes = 2 * history_maxlen
    /\ history_index = 0
    /\ Full
    /\ buffer[0] # buffer[history_maxlen - 1]

\* C2: after more than capacity writes, get_history_df() without a limit
\* returns exactly capacity rows: the rows of the last capacity writes,
\* oldest first.
C2_FullHistory ==
    (op = "get_history_df" /\ hist_limit = None /\ writes > history_maxlen)
        => /\ Len(hist_ret) = history_maxlen
           /\ hist_ret = recent

\* capacity + k writes with k the capacity itself (cursor back on slot 0)
C2_Witness ==
    /\ op = "get_history_df"
    /\ hist_limit = None
    /\ writes = 2 * history_maxlen
    /\ hist_ret = recent
    /\ hist_ret[1] # hist_ret[history_maxlen]

\* C3: with 1 <= limit <= written <= capacity, get_history_df(limit) returns
\* exactly the limit most recently written rows, oldest first.
C3_LimitWithinWritten ==
    (/\ op = "get_history_df"
     /\ hist_limit # None
     /\ writes <= history_maxlen) =>
        (1 <= AskedLimit /\ AskedLimit <= writes
            => hist_ret = LastRows(recent, AskedLimit))

\* a limit below the number of rows of a buffer that is not yet full
C3_Witness ==
    /\ op = "get_history_df"
    /\ hist_limit # None
    /\ writes < history_maxlen
    /\ 1 <= AskedLimit /\ AskedLimit < writes
    /\ Len(hist_ret) = writes

\* C4: once the buffer has wrapped (more than capacity writes), with
\* 1 <= limit < capacity, get_history_df(limit) returns exactly the limit
\* most recently written rows in write order, none skipped or repeated.
C4_WrappedLimit ==
    (/\ op = "get_history_df"
     /\ hist_limit # None
     /\ writes > history_maxlen) =>
        (1 <= AskedLimit /\ AskedLimit < history_maxlen
            => /\ Len(hist_ret) = AskedLimit
               /\ hist_ret = LastRows(recent, AskedLimit))

\* the rows asked for lie across the end of the array: the tail segment
\* [start, capacity) is stitched before the head segment [0, cursor)
C4_Witness ==
    /\ op = "get_history_df"
    /\ hist_limit # None
    /\ writes > history_maxlen
    /\ 0 < history_index /\ history_index < AskedLimit
    /\ AskedLimit < history_maxlen
    /\ hist_ret = LastRows(recent, AskedLimit)
    /\ hist_ret[1] # hist_ret[AskedLimit]

\* C5: with nothing written get_history_df returns the empty table for
\* every limit; with a limit larger than the number of rows written it
\* returns all the rows written, oldest first, and nothing else.
C5_EmptyAndOverLimit ==
    op = "get_history_df" =>
        /\ writes = 0 => hist_ret = <<>>
        /\ (hist_limit # None /\ writes <= history_maxlen)
              => (AskedLimit > writes => hist_ret = recent)

\* a limit above the number of rows of a partly filled buffer
C5_Witness ==
    /\ op = "get_history_df"
    /\ hist_limit # None
    /\ 1 < writes /\ writes < history_maxlen
    /\ AskedLimit > writes
    /\ hist_ret = recent
    /\ Len(hist_ret) = writes

\* ---------------------------------------------- claims about staleness

\* C7: the connected flag of a snapshot is true exactly when less than
\* StaleAfter seconds have passed since the last update: true right after
\* an update, false from StaleAfter seconds on (StaleAfter included).
C7_ConnectedIffFresh ==
    op = "get_snapshot" =>
        (snap.connected <=> (now - last_update_time < StaleAfter))

\* a snapshot taken exactly StaleAfter seconds after the last update
C7_Witness ==
    /\ op = "get_snapshot"
    /\ writes > 0
    /\ now - last_update_time = StaleAfter
    /\ snap.connected

\* ------------------------------------------ a caller that keeps the copies

\* List objects a run may create.
MaxObjects == 3

\* The dict parse_car_telemetry returns, its tyres_surface_temp a list object.
ParsedTelemetry(o) ==
    [speed |-> 300, throttle |-> 1, steer |-> 0, brake |-> 0, clutch |-> 0,
     gear |-> 8, rpm |-> 11000, drs |-> 1, rev_lights_percent |-> 50,
     engine_temp |-> 110, tyres_surface_temp |-> o]

ParsedTyres == <<90, 90, 95, 95>>

HasSnap == DOMAIN snap # {}

\* a dict of the store or of a snapshot with its list read through
Deref(t) == [t EXCEPT !.tyres_surface_temp = lists[t.tyres_surface_temp]]

\* what get_snapshot and get_history_df read of the store
StoreView ==
    [telemetry |-> Deref(telemetry), lap_data |-> lap_data,
     session |-> session, buffer |-> buffer,
     history_index |-> history_index, history_count |-> history_count]

\* the snapshot the caller holds, as the caller reads it
SnapView == [snap EXCEPT !.telemetry = Deref(snap.telemetry)]

\* The listener's path: a new record is parsed (its list is a new object)
\* and handed to update_telemetry.  The caller keeps what it was returned.
KeepUpdateTelemetry ==
    /\ Cardinality(DOMAIN lists) < MaxObjects
    /\ LET o == Cardinality(DOMAIN lists)
           data == ParsedTelemetry(o)
       IN  /\ lists' = (o :> ParsedTyres) @@ lists
           /\ update_telemetry(data)
           /\ NoteWrite(data)
    /\ op' = "update_telemetry"
    /\ UNCHANGED <<now, hist_limit, hist_ret, snap, concVars, listenerVars, pureVars, singletonVars>>

KeepUpdateLapData ==
    /\ \E data \in LapSamples : update_lap_data(data)
    /\ op' = "update_lap_data"
    /\ UNCHANGED <<lists, now, ghostVars, hist_limit, hist_ret, snap,
                   concVars, listenerVars, pureVars, singletonVars>>

KeepGetSnapshot ==
    /\ get_snapshot
    /\ op' = "get_snapshot"
    /\ snap' = Snapshot
    /\ UNCHANGED <<lists, now, ghostVars, hist_limit, hist_ret, concVars,
                   listenerVars, pureVars, singletonVars>>

KeepGetHistoryDf ==
    /\ \E limit \in {None, Some(1)} :
          /\ hist_limit' = limit
          /\ hist_ret' = get_history_df(limit)
    /\ op' = "get_history_df"
    /\ UNCHANGED <<storeVars, lists, now, ghostVars, snap, concVars,
                   listenerVars, pureVars, singletonVars>>

\* snapshot['telemetry']['speed'] = 999: the dict is the caller's own copy
MutateSnapshotField ==
    /\ HasSnap
    /\ snap' = [snap EXCEPT !.telemetry.speed = 999]
    /\ op' = "mutate_snapshot"
    /\ UNCHANGED <<storeVars, lists, now, ghostVars, hist_limit, hist_ret,
                   concVars, listenerVars, pureVars, singletonVars>>

\* snapshot['telemetry']['tyres_surface_temp'][0] = 999: the list object the
\* snapshot's dict refers to is changed in place
MutateSnapshotList ==
    /\ HasSnap
    /\ lists' = [lists EXCEPT ![snap.telemetry.tyres_surface_temp][1] = 999]
    /\ op' = "mutate_snapshot"
    /\ UNCHANGED <<storeVars, now, ghostVars, hist_limit, hist_ret, snap,
                   concVars, listenerVars, pureVars, singletonVars>>

\* df.loc[0, 'speed_kph'] = 999 on a returned table
MutateHistory ==
    /\ hist_ret # <<>>
    /\ hist_ret' = [hist_ret EXCEPT ![1].speed_kph = 999]
    /\ op' = "mutate_history"
    /\ UNCHANGED <<storeVars, lists, now, ghostVars, hist_limit, snap,
                   concVars, listenerVars, pureVars, singletonVars>>

NextKeep ==
    \/ KeepUpdateTelemetry
    \/ KeepUpdateLapData
    \/ KeepGetSnapshot
    \/ KeepGetHistoryDf
    \/ MutateSnapshotField
    \/ MutateSnapshotList
    \/ MutateHistory

SpecKeep == Init /\ [][NextKeep]_vars

\* C8: nothing returned aliases the store: a change the caller makes to a
\* returned snapshot (nested values included) or to a returned history
\* table leaves what the store holds, and so what later reads return, as it
\* was; and an update leaves a snapshot returned earlier as it was.
C8_NoAliasing ==
    [][ /\ op' \in {"mutate_snapshot", "mutate_history"}
            => StoreView' = StoreView
        /\ (op' \in {"update_telemetry", "update_lap_data"} /\ HasSnap)
            => SnapView' = SnapView ]_vars

\* the store's tyres_surface_temp list has been changed through a snapshot
C8_Witness ==
    /\ op = "mutate_snapshot"
    /\ HasSnap
    /\ snap.telemetry.tyres_surface_temp = telemetry.tyres_surface_temp
    /\ lists[telemetry.tyres_surface_temp][1] = 999

\* ----------------------------------- the store under concurrent threads
\*
\* One writer thread calls the update_* methods, reader threads call
\* get_snapshot and get_history_df.  Every method body runs statement by
\* statement inside "with self._lock".

\* update_telemetry calls the writer makes in a run.
MaxConcWrites == 2

Writer == "writer"
Readers == {"reader1", "reader2"}
Threads == {Writer} \cup Readers

StoreState ==
    [telemetry |-> telemetry, lap_data |-> lap_data, session |-> session,
     last_update_time |-> last_update_time, is_connected |-> is_connected,
     start_time |-> start_time, history_index |-> history_index,
     history_count |-> history_count, buffer |-> buffer]

\* positions inside a "with self._lock" block
InsideLock ==
    {"ut_telemetry", "ut_time", "ut_connected", "ut_start", "ut_buffer",
     "ut_index", "ut_count", "ut_release",
     "ul_lap_data", "ul_time", "ul_connected", "ul_release",
     "us_session", "us_time", "us_connected", "us_release",
     "gs_body", "gs_release", "gh_body", "gh_release"}

\* positions at which a reader is about to read the store
Reading == {"gs_body", "gh_body"}

InitThreads ==
    /\ now = ClockStart
    /\ InitStore
    /\ InitGhost
    /\ InitCaller
    /\ InitConstructed
    /\ InitNoListener
    /\ InitNoPure
    /\ lock = "free"
    /\ pc = [t \in Threads |-> "idle"]
    /\ local = [t \in Threads |-> <<>>]
    /\ committed = StoreState

Goto(t, label) == pc' = [pc EXCEPT ![t] = label]

AcquireNoWait(t) == lock' = t

\* "with self._lock": entered only while no thread holds the lock
Acquire(t) ==
    /\ lock = "free"
    /\ lock' = t

\* leaving the "with" block; the store is now as this method left it
Release(t) ==
    /\ lock' = "free"
    /\ committed' = StoreState

\* The writer calls one of the update methods.
WriterCall ==
    /\ pc[Writer] = "idle"
    /\ \/ /\ writes < MaxConcWrites
          /\ \E data \in TelemetrySamples :
                local' = [local EXCEPT ![Writer] = data]
          /\ writes' = writes + 1
          /\ Goto(Writer, "ut_acquire")
       \/ /\ \E data \in LapSamples :
                local' = [local EXCEPT ![Writer] = data]
          /\ Goto(Writer, "ul_acquire")
          /\ UNCHANGED writes
       \/ /\ \E data \in SessionSamples :
                local' = [local EXCEPT ![Writer] = data]
          /\ Goto(Writer, "us_acquire")
          /\ UNCHANGED writes
    /\ UNCHANGED <<storeVars, lists, now, recent, callerVars, lock,
                   committed, listenerVars, pureVars, singletonVars>>

\* A reader calls get_snapshot or get_history_df(limit).
ReaderCall(t) ==
    /\ pc[t] = "idle"
    /\ \/ /\ Goto(t, "gs_acquire")
          /\ local' = [local EXCEPT ![t] = <<>>]
       \/ /\ Goto(t, "gh_acquire")
          /\ \E limit \in {None, Some(1)} :
                local' = [local EXCEPT ![t] = limit]
    /\ UNCHANGED <<storeVars, lists, now, ghostVars, callerVars, lock,
                   committed, listenerVars, pureVars, singletonVars>>

\* what a step that only touches the store and the thread leaves alone
StepFrame == UNCHANGED <<lists, now, ghostVars, callerVars, local, lock,
                         committed, listenerVars, pureVars, singletonVars>>

Enter(t, from, to) ==
    /\ pc[t] = from
    /\ Acquire(t)
    /\ Goto(t, to)
    /\ UNCHANGED <<storeVars, lists, now, ghostVars, callerVars, local,
                   committed, listenerVars, pureVars, singletonVars>>

Leave(t, from) ==
    /\ pc[t] = from
    /\ Release(t)
    /\ Goto(t, "idle")
    /\ local' = [local EXCEPT ![t] = <<>>]
    /\ UNCHANGED <<storeVars, lists, now, ghostVars, callerVars,
                   listenerVars, pureVars, singletonVars>>

\* one statement of a method body: the thread is at "from", the statement
\* changes the store as "effect" says, and the thread moves on to "to"
Statement(t, from, to, effect) ==
    /\ pc[t] = from
    /\ effect
    /\ Goto(t, to)
    /\ StepFrame

UtAcquire == Enter(Writer, "ut_acquire", "ut_telemetry")

UtTelemetry ==
    Statement(Writer, "ut_telemetry", "ut_time",
        /\ telemetry' = DictUpdate(telemetry, local[Writer])
        /\ UNCHANGED <<lap_data, session, last_update_time, is_connected,
                       start_time, history_index, history_count, buffer>>)

UtTime ==
    Statement(Writer, "ut_time", "ut_connected",
        /\ last_update_time' = now
        /\ UNCHANGED <<telemetry, lap_data, session, is_connected,
                       start_time, history_index, history_count, buffer>>)

UtConnected ==
    Statement(Writer, "ut_connected", "ut_start",
        /\ is_connected' = TRUE
        /\ UNCHANGED <<telemetry, lap_data, session, last_update_time,
                       start_time, history_index, history_count, buffer>>)

UtStart ==
    Statement(Writer, "ut_start", "ut_buffer",
        /\ start_time' = IF history_count = 0 THEN last_update_time
                                              ELSE start_time
        /\ UNCHANGED <<telemetry, lap_data, session, last_update_time,
                       is_connected, history_index, history_count, buffer>>)

UtBuffer ==
    Statement(Writer, "ut_buffer", "ut_index",
        /\ buffer' = [buffer EXCEPT ![history_index] =
                         Row(local[Writer], last_update_time - start_time)]
        /\ UNCHANGED <<telemetry, lap_data, session, last_update_time,
                       is_connected, start_time, history_index,
                       history_count>>)

UtIndex ==
    Statement(Writer, "ut_index", "ut_count",
        /\ history_index' = NextIndex(history_index)
        /\ UNCHANGED <<telemetry, lap_data, session, last_update_time,
                       is_connected, start_time, history_count, buffer>>)

UtCount ==
    Statement(Writer, "ut_count", "ut_release",
        /\ history_count' = NextCount(history_count)
        /\ UNCHANGED <<telemetry, lap_data, session, last_update_time,
                       is_connected, start_time, history_index, buffer>>)

UtRelease == Leave(Writer, "ut_release")

UlAcquire == Enter(Writer, "ul_acquire", "ul_lap_data")

UlLapData ==
    Statement(Writer, "ul_lap_data", "ul_time",
        /\ lap_data' = DictUpdate(lap_data, local[Writer])
        /\ UNCHANGED <<telemetry, session, last_update_time, is_connected,
                       start_time, history_index, history_count, buffer>>)

UlTime ==
    Statement(Writer, "ul_time", "ul_connected",
        /\ last_update_time' = now
        /\ UNCHANGED <<telemetry, lap_data, session, is_connected,
                       start_time, history_index, history_count, buffer>>)

UlConnected ==
    Statement(Writer, "ul_connected", "ul_release",
        /\ is_connected' = TRUE
        /\ UNCHANGED <<telemetry, lap_data, session, last_update_time,
                       start_time, history_index, history_count, buffer>>)

UlRelease == Leave(Writer, "ul_release")

UsAcquire == Enter(Writer, "us_acquire", "us_session")

UsSession ==
    Statement(Writer, "us_session", "us_time",
        /\ session' = DictUpdate(session, local[Writer])
        /\ UNCHANGED <<telemetry, lap_data, last_update_time, is_connected,
                       start_time, history_index, history_count, buffer>>)

UsTime ==
    Statement(Writer, "us_time", "us_connected",
        /\ last_update_time' = now
        /\ UNCHANGED <<telemetry, lap_data, session, is_connected,
                       start_time, history_index, history_count, buffer>>)

UsConnected ==
    Statement(Writer, "us_connected", "us_release",
        /\ is_connected' = TRUE
        /\ UNCHANGED <<telemetry, lap_data, session, last_update_time,
                       start_time, history_index, history_count, buffer>>)

UsRelease == Leave(Writer, "us_release")

GsAcquire(t) == Enter(t, "gs_acquire", "gs_body")

\* the staleness check and the copies of get_snapshot
GsBody(t) ==
    /\ pc[t] = "gs_body"
    /\ get_snapshot
    /\ local' = [local EXCEPT ![t] = Snapshot]
    /\ Goto(t, "gs_release")
    /\ UNCHANGED <<lists, now, ghostVars, callerVars, lock, committed,
                   listenerVars, pureVars, singletonVars>>

GsRelease(t) == Leave(t, "gs_release")

GhAcquire(t) == Enter(t, "gh_acquire", "gh_body")

GhBody(t) ==
    /\ pc[t] = "gh_body"
    /\ local' = [local EXCEPT ![t] = get_history_df(local[t])]
    /\ Goto(t, "gh_release")
    /\ UNCHANGED <<storeVars, lists, now, ghostVars, callerVars, lock,
                   committed, listenerVars, pureVars, singletonVars>>

GhRelease(t) == Leave(t, "gh_release")

WriterStep ==
    \/ WriterCall
    \/ UtAcquire \/ UtTelemetry \/ UtTime \/ UtConnected \/ UtStart
    \/ UtBuffer \/ UtIndex \/ UtCount \/ UtRelease
    \/ UlAcquire \/ UlLapData \/ UlTime \/ UlConnected \/ UlRelease
    \/ UsAcquire \/ UsSession \/ UsTime \/ UsConnected \/ UsRelease

ReaderStep(t) ==
    \/ ReaderCall(t)
    \/ GsAcquire(t) \/ GsBody(t) \/ GsRelease(t)
    \/ GhAcquire(t) \/ GhBody(t) \/ GhRelease(t)

NextThreads ==
    \/ WriterStep
    \/ \E t \in Readers : ReaderStep(t)

SpecThreads == InitThreads /\ [][NextThreads]_vars

\* C6: every store operation runs wholly under the one lock: at most one
\* thread is inside a method body, it is the lock's holder, and a reader
\* about to read finds the store exactly as the last completed operation
\* left it (no row without its cursor and count, no latest telemetry
\* without its row and the connected mark).
C6_ReadsSeeCompleteUpdates ==
    /\ \A t, u \in Threads :
          (pc[t] \in InsideLock /\ pc[u] \in InsideLock) => t = u
    /\ \A t \in Threads : pc[t] \in InsideLock => lock = t
    /\ \A t \in Readers : pc[t] \in Reading => StoreState = committed

\* a reader reads while the writer waits for the lock with its second
\* telemetry sample, the first one complete in the store
C6_Witness ==
    /\ pc["reader1"] = "gh_body"
    /\ pc[Writer] = "ut_acquire"
    /\ pc["reader2"] = "gs_acquire"
    /\ history_count = 1
    /\ is_connected

\* ------------------------------------------------------ the UDP listener
\*
\* A datagram is its length, the packet id and player index its header
\* carries (read only when the header is complete), and the per-car records
\* its body carries.

\* Datagrams sent to the listener in a run.
MaxDatagrams == 2

\* struct.calcsize of the header, car telemetry and lap data layouts
HeaderSize == 28
CarDataSize == 60
LapDataSize == 43

\* parse_session_data's own header and segment sizes
SessionHeaderSize == 29
SessionSize == 18

PACKET_ID_SESSION == 1
PACKET_ID_LAP_DATA == 2
PACKET_ID_CAR_TELEMETRY == 6

CarIndexes == {0, 1}

Datagram(l, p, i) == [len |-> l, packet_id |-> p, player_index |-> i]

\* The datagrams sent: shorter than the header; an unknown packet id; and
\* for each packet kind, lengths just below and at the length its parser
\* asks for, for either car index.
Datagrams ==
    {Datagram(l, PACKET_ID_CAR_TELEMETRY, 0) : l \in {0, HeaderSize - 1}}
    \cup {Datagram(HeaderSize + 2 * CarDataSize, 0, 0)}
    \cup {Datagram(l, PACKET_ID_CAR_TELEMETRY, i) :
            l \in {HeaderSize + CarDataSize - 1, HeaderSize + CarDataSize,
                   HeaderSize + 2 * CarDataSize},
            i \in CarIndexes}
    \cup {Datagram(l, PACKET_ID_LAP_DATA, i) :
            l \in {HeaderSize + LapDataSize - 1, HeaderSize + LapDataSize,
                   HeaderSize + 2 * LapDataSize},
            i \in CarIndexes}
    \cup {Datagram(l, PACKET_ID_SESSION, 0) :
            l \in {HeaderSize, SessionHeaderSize + SessionSize - 1,
                   SessionHeaderSize + SessionSize}}

\* a parser's None
NoResult == <<>>

\* "if result:"
IsResult(result) == DOMAIN result # {}

\* The record a car telemetry body carries for car i; the tyre temperatures
\* are the contents of the list the parser builds.
CarRecord(i) ==
    [speed |-> 100 + i, throttle |-> 1, steer |-> 0, brake |-> 0,
     clutch |-> 0, gear |-> 3 + i, rpm |-> 9000, drs |-> 0,
     rev_lights_percent |-> 40, engine_temp |-> 105,
     tyres_surface_temp |-> <<80 + i, 80, 85, 85>>]

\* The record a lap data body carries for car i.
LapRecord(i) ==
    [last_lap_time |-> 90000, current_lap_time |-> 1000,
     sector1_time |-> 0, sector2_time |-> 0, lap_distance |-> 50,
     total_distance |-> 50, car_position |-> 1 + i, current_lap |-> 2,
     pit_status |-> 0, sector |-> 0, current_lap_invalid |-> 0,
     penalties |-> 0]

\* what unpacking gives when the bytes read straddle two cars' records
Misread == [misaligned |-> TRUE]

\* struct.unpack of the car_data_size bytes at offset in a body of per-car
\* records that starts after the header: the record that starts there
unpack_car_data(offset) ==
    IF (offset - HeaderSize) % CarDataSize = 0
    THEN CarRecord((offset - HeaderSize) \div CarDataSize)
    ELSE Misread

\* struct.unpack of the lap_data_size bytes at offset
unpack_lap_data(offset) ==
    IF (offset - HeaderSize) % LapDataSize = 0
    THEN LapRecord((offset - HeaderSize) \div LapDataSize)
    ELSE Misread

\* parse_car_telemetry with the header taken one byte longer, as
\* parse_session_data takes it
parse_car_telemetry_long_header(d, player_index) ==
    LET offset == SessionHeaderSize + player_index * CarDataSize
    IN  IF d.len < offset + CarDataSize
        THEN NoResult
        ELSE unpack_car_data(offset)

parse_car_telemetry(d, player_index) ==
    LET offset == HeaderSize + player_index * CarDataSize
    IN  IF d.len < offset + CarDataSize
        THEN NoResult
        ELSE unpack_car_data(offset)

parse_lap_data(d, player_index) ==
    LET offset == HeaderSize + player_index * LapDataSize
    IN  IF d.len < offset + LapDataSize
        THEN NoResult
        ELSE unpack_lap_data(offset)

\* The session a session datagram carries.
SessionRecord ==
    [weather |-> 1, track_temperature |-> 30, air_temperature |-> 20,
     total_laps |-> 50, session_time_left |-> 600, session_type |-> 10,
     track_id |-> 5, formula |-> 0]

\* Its segment as sent after the header, in the layout of session_fmt:
\* four uint8, a little-endian uint16, three uint8 and nine pad bytes.
SessionBody ==
    <<SessionRecord.weather, SessionRecord.track_temperature,
      SessionRecord.air_temperature, SessionRecord.total_laps,
      SessionRecord.session_time_left % 256,
      SessionRecord.session_time_left \div 256,
      SessionRecord.session_type, SessionRecord.track_id,
      SessionRecord.formula>> \o [k \in 1..9 |-> 0]

\* the byte at position k of a session datagram (from 0); the bytes after
\* the segment are zero
SessionByte(k) ==
    IF k - HeaderSize + 1 \in DOMAIN SessionBody
    THEN SessionBody[k - HeaderSize + 1]
    ELSE 0

\* struct.unpack of the session_size bytes at offset
unpack_session_data(offset) ==
    [weather |-> SessionByte(offset),
     track_temperature |-> SessionByte(offset + 1),
     air_temperature |-> SessionByte(offset + 2),
     total_laps |-> SessionByte(offset + 3),
     session_time_left |->
        SessionByte(offset + 4) + 256 * SessionByte(offset + 5),
     session_type |-> SessionByte(offset + 6),
     track_id |-> SessionByte(offset + 7),
     formula |-> SessionByte(offset + 8)]

parse_session_data(d) ==
    LET offset == SessionHeaderSize
    IN  IF d.len < offset + SessionSize
        THEN NoResult
        ELSE unpack_session_data(offset)

LoopPcs == {"loop_test", "recv", "handle"}

\* UdpListener.__init__: the socket exists, the thread is not started.
InitListener ==
    /\ now = ClockStart
    /\ InitStore
    /\ InitGhost
    /\ InitCaller
    /\ InitConstructed
    /\ InitConc
    /\ lpc = "created"
    /\ running = FALSE
    /\ sock_open = TRUE
    /\ inbox = <<>>
    /\ cur = <<>>
    /\ received = 0
    /\ stop_called = FALSE
    /\ bind_failed = FALSE
    /\ owner_error = "none"
    /\ InitNoPure

StoreUntouched == UNCHANGED <<storeVars, lists, now, ghostVars, callerVars,
                              concVars, pureVars, singletonVars>>

\* The owner starts the thread.
ListenerStart ==
    /\ lpc = "created"
    /\ lpc' = "started"
    /\ StoreUntouched
    /\ UNCHANGED <<running, sock_open, inbox, cur, received, stop_called, bind_failed, owner_error>>

\* stop(), called by the owner at any moment after start()
stop ==
    /\ running' = FALSE
    /\ UNCHANGED sock_open

ListenerStop ==
    /\ lpc # "created"
    /\ ~stop_called
    /\ stop
    /\ stop_called' = TRUE
    /\ StoreUntouched
    /\ UNCHANGED <<lpc, inbox, cur, received, bind_failed, owner_error>>

\* A datagram reaches the socket.
Send ==
    /\ sock_open
    /\ received + Len(inbox) < MaxDatagrams
    /\ \E d \in Datagrams : inbox' = Append(inbox, d)
    /\ StoreUntouched
    /\ UNCHANGED <<lpc, running, sock_open, cur, received, stop_called, bind_failed, owner_error>>

\* run(): self.running = True
RunBegin ==
    /\ lpc = "started"
    /\ running' = TRUE
    /\ lpc' = "bind"
    /\ StoreUntouched
    /\ UNCHANGED <<sock_open, inbox, cur, received, stop_called, bind_failed, owner_error>>

\* setsockopt and bind: they succeed, or raise into the outer except
Bind ==
    /\ lpc = "bind"
    /\ \/ lpc' = "loop_test" /\ UNCHANGED bind_failed
       \/ lpc' = "fatal" /\ bind_failed' = TRUE
    /\ StoreUntouched
    /\ UNCHANGED <<running, sock_open, inbox, cur, received, stop_called,
                   owner_error>>

\* "while self.running"
LoopTest ==
    /\ lpc = "loop_test"
    /\ lpc' = IF running THEN "recv" ELSE "finally"
    /\ StoreUntouched
    /\ UNCHANGED <<running, sock_open, inbox, cur, received, stop_called, bind_failed, owner_error>>

\* recvfrom returns the next datagram; it blocks while there is none
Recv ==
    /\ lpc = "recv"
    /\ inbox # <<>>
    /\ cur' = Head(inbox)
    /\ inbox' = Tail(inbox)
    /\ received' = received + 1
    /\ lpc' = "handle"
    /\ StoreUntouched
    /\ UNCHANGED <<running, sock_open, stop_called, bind_failed, owner_error>>

OnLoopErrorPropagate == "fatal"

\* where an exception raised in the loop body goes: both inner handlers
\* log it and the loop goes on
OnLoopError == "loop_test"

\* recvfrom raises (an OSError the network stack reports); nothing is read
RecvError ==
    /\ lpc = "recv"
    /\ lpc' = OnLoopError
    /\ StoreUntouched
    /\ UNCHANGED <<running, sock_open, inbox, cur, received, stop_called, bind_failed, owner_error>>

\* a dropped datagram that still counts as a sign of life: the store's
\* update time and connected flag are refreshed as by an empty update
KeepAliveOnDrop ==
    /\ update_session(<<>>)
    /\ UNCHANGED <<lists, ghostVars>>

\* a datagram that is not forwarded leaves no trace in the store
StoreUnchanged == UNCHANGED <<storeVars, lists, ghostVars>>

\* the list parse_car_telemetry built becomes an object on the heap
ForwardTelemetry(result) ==
    LET o == Cardinality(DOMAIN lists)
        data == [result EXCEPT !.tyres_surface_temp = o]
    IN  /\ lists' = (o :> result.tyres_surface_temp) @@ lists
        /\ update_telemetry(data)
        /\ NoteWrite(data)

\* The loop body after recvfrom: header length test, dispatch on the
\* packet id, parse, forward to the store.
Dispatch(d) ==
    IF d.len < HeaderSize
    THEN StoreUnchanged
    ELSE IF d.packet_id = PACKET_ID_CAR_TELEMETRY
    THEN LET result == parse_car_telemetry(d, d.player_index)
         IN  IF IsResult(result) THEN ForwardTelemetry(result)
                                 ELSE StoreUnchanged
    ELSE IF d.packet_id = PACKET_ID_LAP_DATA
    THEN LET result == parse_lap_data(d, d.player_index)
         IN  IF IsResult(result)
             THEN update_lap_data(result) /\ UNCHANGED <<lists, ghostVars>>
             ELSE StoreUnchanged
    ELSE IF d.packet_id = PACKET_ID_SESSION
    THEN LET result == parse_session_data(d)
         IN  IF IsResult(result)
             THEN update_session(result) /\ UNCHANGED <<lists, ghostVars>>
             ELSE StoreUnchanged
    ELSE StoreUnchanged

Handle ==
    /\ lpc = "handle"
    /\ Dispatch(cur)
    /\ lpc' = "loop_test"
    /\ UNCHANGED <<now, callerVars, concVars, pureVars, singletonVars, running, sock_open,
                   inbox, cur, received, stop_called, bind_failed,
                   owner_error>>

\* the outer "except Exception": the error is logged as fatal and goes no
\* further; run() then returns normally, so the owner is handed nothing
Fatal ==
    /\ lpc = "fatal"
    /\ lpc' = "finally"
    /\ StoreUntouched
    /\ UNCHANGED <<running, sock_open, inbox, cur, received, stop_called, bind_failed, owner_error>>

\* "finally": the socket is closed and run() returns
Finally ==
    /\ lpc = "finally"
    /\ sock_open' = FALSE
    /\ lpc' = "exited"
    /\ StoreUntouched
    /\ UNCHANGED <<running, inbox, cur, received, stop_called, bind_failed, owner_error>>

\* the steps the listener thread takes by itself
ListenerStep ==
    \/ RunBegin
    \/ Bind
    \/ LoopTest
    \/ Recv
    \/ Handle
    \/ Fatal
    \/ Finally

NextListener ==
    \/ ListenerStart
    \/ ListenerStop
    \/ Send
    \/ RecvError
    \/ ListenerStep

\* The thread is scheduled: a step it can take is eventually taken.  The
\* network owes it nothing: no datagram need ever arrive.
SpecListener ==
    InitListener /\ [][NextListener]_vars /\ WF_vars(ListenerStep)

\* C9: whatever datagrams arrive, the receive loop is left only at its
\* loop test after an explicit stop: no datagram and no error takes the
\* thread out of the loop.
C9_LoopOnlyEndsOnStop ==
    [][ (lpc \in LoopPcs /\ lpc' \notin LoopPcs)
            => (lpc = "loop_test" /\ stop_called /\ ~running) ]_vars

\* the loop is back at recvfrom after a datagram shorter than the header
\* and then one with a truncated body
C9_Witness ==
    /\ lpc = "recv"
    /\ received = 2
    /\ running
    /\ cur.len >= HeaderSize
    /\ cur.packet_id = PACKET_ID_CAR_TELEMETRY
    /\ ~IsResult(parse_car_telemetry(cur, cur.player_index))
    /\ writes = 0

\* C10: once stop() has been called on a running listener, the thread
\* eventually exits, though no further datagram arrives.
C10_StopEndsThread ==
    (lpc \in LoopPcs /\ stop_called /\ ~running) ~> (lpc = "exited")

\* stop() has returned, the socket is still open and the thread is blocked
\* in recvfrom with nothing to receive
C10_Witness ==
    /\ stop_called
    /\ ~running
    /\ lpc = "recv"
    /\ inbox = <<>>
    /\ sock_open

\* C11 (as claimed): when bind fails, no loop iteration runs, no store
\* update is made, and once the thread is over the owner that started the
\* listener has been handed the error.
C11_BindFailureSurfaced ==
    bind_failed =>
        /\ lpc \notin LoopPcs
        /\ received = 0
        /\ writes = 0
        /\ last_update_time = 0
        /\ (lpc = "exited" => owner_error # "none")

\* bind has failed, run() has returned, and the owner has been handed
\* nothing
C11_Witness ==
    /\ bind_failed
    /\ lpc = "exited"
    /\ ~sock_open
    /\ owner_error = "none"

\* the datagrams C12 is about: shorter than the header, or of an unknown
\* packet id, or with a body too short for the player's record
Dropped(d) ==
    \/ d.len < HeaderSize
    \/ d.packet_id \notin {PACKET_ID_SESSION, PACKET_ID_LAP_DATA,
                           PACKET_ID_CAR_TELEMETRY}
    \/ /\ d.packet_id = PACKET_ID_CAR_TELEMETRY
       /\ d.len < HeaderSize + (d.player_index + 1) * CarDataSize
    \/ /\ d.packet_id = PACKET_ID_LAP_DATA
       /\ d.len < HeaderSize + (d.player_index + 1) * LapDataSize

\* C12: handling a datagram that is shorter than the header, or has an
\* unknown packet id, or a body too short for the player's record leaves
\* the whole store as it was: latest records, history rows, cursor, count,
\* connected flag and last update time.
C12_DroppedLeavesStore ==
    [][ (lpc = "handle" /\ Dropped(cur)) => UNCHANGED <<storeVars, lists>> ]_vars

\* a telemetry datagram was stored, then one with a complete header and a
\* truncated body was handled and dropped
C12_Witness ==
    /\ lpc = "loop_test"
    /\ received = 2
    /\ writes = 1
    /\ is_connected
    /\ cur.len >= HeaderSize
    /\ cur.packet_id \in {PACKET_ID_CAR_TELEMETRY, PACKET_ID_LAP_DATA}
    /\ Dropped(cur)

\* ------------------------------------------------------ the packet parsers
\*
\* The parsers are pure functions.  One is applied to one input: fname is
\* the function, fin its arguments, fout is <<>> before the call and
\* <<result>> after it.
\*
\* A value of a fixed-width struct field is its little-endian bytes, so a
\* uint8 is one byte, a uint16 two, a uint32 or a float32 four and a uint64
\* eight, and the width of a value is kept whatever it is compared with.

\* field widths of '<HBBBBQfIIBB': no padding in "<" layouts
HeaderFormat == <<2, 1, 1, 1, 1, 8, 4, 4, 4, 1, 1>>

RECURSIVE CalcSize(_)
\* struct.calcsize
CalcSize(fmt) == IF fmt = <<>> THEN 0 ELSE Head(fmt) + CalcSize(Tail(fmt))

RECURSIVE Pack(_, _)
\* struct.pack: the fields' bytes one after another
Pack(fmt, values) ==
    IF fmt = <<>> THEN <<>>
    ELSE SubSeq(Head(values), 1, Head(fmt)) \o Pack(Tail(fmt), Tail(values))

RECURSIVE UnpackFields(_, _)
\* struct.unpack: the bytes cut into the fields of the format
UnpackFields(fmt, bytes) ==
    IF fmt = <<>> THEN <<>>
    ELSE <<SubSeq(bytes, 1, Head(fmt))>>
         \o UnpackFields(Tail(fmt), SubSeq(bytes, Head(fmt) + 1, Len(bytes)))

\* data[k] of a Python tuple
At(data, k) == data[k + 1]

\* the names of the eleven header fields, in layout order
HeaderFields ==
    <<"packet_format", "game_major_version", "game_minor_version",
      "packet_version", "packet_id", "session_uid", "session_time",
      "frame_identifier", "overall_frame_identifier", "player_car_index",
      "secondary_player_car_index">>

\* create_header: the eleven fields of h packed in layout order
create_header(h) ==
    Pack(HeaderFormat, [k \in 1..Len(HeaderFields) |-> h[HeaderFields[k]]])

\* parse_header: nine keys are returned, and the one named
\* player_car_index is read from position 8 of the unpacked tuple
parse_header(packet) ==
    LET header_size == CalcSize(HeaderFormat)
    IN  IF Len(packet) < header_size
        THEN NoResult
        ELSE LET data == UnpackFields(HeaderFormat,
                                      SubSeq(packet, 1, header_size))
             IN  [packet_format |-> At(data, 0),
                  game_major_version |-> At(data, 1),
                  game_minor_version |-> At(data, 2),
                  packet_version |-> At(data, 3),
                  packet_id |-> At(data, 4),
                  session_uid |-> At(data, 5),
                  session_time |-> At(data, 6),
                  frame_identifier |-> At(data, 7),
                  player_car_index |-> At(data, 8)]

\* the little-endian bytes of v in a field of n bytes, for v < 65536
LE(v, n) == [k \in 1..n |-> IF k = 1 THEN v % 256
                            ELSE IF k = 2 THEN v \div 256 ELSE 0]

\* Headers encoded: the values the replay sender writes (2024, 1, 0, 1,
\* session 123456789, player 0, secondary 255) and others that tell the
\* fields apart.
Headers ==
    [packet_format : {LE(2024, 2), LE(2023, 2)},
     game_major_version : {LE(1, 1)},
     game_minor_version : {LE(0, 1), LE(18, 1)},
     packet_version : {LE(1, 1)},
     packet_id : {LE(PACKET_ID_SESSION, 1), LE(PACKET_ID_LAP_DATA, 1),
                  LE(PACKET_ID_CAR_TELEMETRY, 1)},
     session_uid : {<<21, 205, 91, 7, 0, 0, 0, 0>>,
                    <<255, 255, 255, 255, 255, 255, 255, 255>>},
     session_time : {<<0, 0, 0, 0>>, <<0, 0, 128, 63>>},
     frame_identifier : {LE(0, 4), LE(7, 4)},
     overall_frame_identifier : {LE(7, 4), LE(265, 4)},
     player_car_index : {LE(0, 1), LE(19, 1)},
     secondary_player_car_index : {LE(255, 1), LE(1, 1)}]

\* what follows the header in the buffer: nothing, or a body
Bodies == {<<>>, <<44, 1, 0, 0>>}

\* the highest car index a uint8 header field can name
MaxCarIndex == 255

\* the length a parser needs for car i's record
Needed(i, size) == HeaderSize + (i + 1) * size

\* Buffer lengths tried for car i: around the length needed, one record
\* short, the bare header, nothing, and the longest datagram
BufferLengths(i, size) ==
    {0, HeaderSize, Needed(i, size) - size, Needed(i, size) - 1,
     Needed(i, size), Needed(i, size) + 1, Needed(MaxCarIndex, size)}

\* Buffer lengths tried for a session datagram: nothing, the bare header,
\* around header + segment for either header size, and a long datagram
SessionLengths ==
    {0, HeaderSize, HeaderSize + SessionSize - 1, HeaderSize + SessionSize,
     SessionHeaderSize + SessionSize, SessionHeaderSize + SessionSize + 1,
     HeaderSize + 2 * CarDataSize}

InitParserInput ==
    \/ /\ fname = "parse_header"
       /\ \E h \in Headers, body \in Bodies :
            fin = [header |-> h, packet |-> create_header(h) \o body]
    \/ /\ fname = "parse_header"
       /\ \E n \in {0, CalcSize(HeaderFormat) - 1} :
            fin = [packet |-> [k \in 1..n |-> 0]]
    \/ /\ fname = "parse_car_telemetry"
       /\ \E i \in 0..MaxCarIndex :
            \E l \in BufferLengths(i, CarDataSize) :
                fin = [packet |-> [len |-> l], player_index |-> i]
    \/ /\ fname = "parse_lap_data"
       /\ \E i \in 0..MaxCarIndex :
            \E l \in BufferLengths(i, LapDataSize) :
                fin = [packet |-> [len |-> l], player_index |-> i]
    \/ /\ fname = "parse_session_data"
       /\ \E l \in SessionLengths : fin = [packet |-> [len |-> l]]

InitParser ==
    /\ now = ClockStart
    /\ InitStore
    /\ InitGhost
    /\ InitCaller
    /\ InitConstructed
    /\ InitConc
    /\ InitNoListener
    /\ InitParserInput
    /\ fout = <<>>

\* everything but the function under check
NotPure == <<storeVars, lists, now, ghostVars, callerVars, concVars,
             listenerVars, singletonVars>>

\* the call: fout receives the value returned
Return(result) ==
    /\ fout = <<>>
    /\ fout' = <<result>>
    /\ UNCHANGED <<fname, fin, NotPure>>

ParseHeader ==
    /\ fname = "parse_header"
    /\ Return(parse_header(fin.packet))

ParseCarTelemetry ==
    /\ fname = "parse_car_telemetry"
    /\ Return(parse_car_telemetry(fin.packet, fin.player_index))

ParseLapData ==
    /\ fname = "parse_lap_data"
    /\ Return(parse_lap_data(fin.packet, fin.player_index))

ParseSessionData ==
    /\ fname = "parse_session_data"
    /\ Return(parse_session_data(fin.packet))

NextParser ==
    \/ ParseHeader
    \/ ParseCarTelemetry
    \/ ParseLapData
    \/ ParseSessionData

SpecParser == InitParser /\ [][NextParser]_vars

\* the value a call has returned
Returned(f) == fname = f /\ fout # <<>>

\* C13 (as claimed): parse_header of an encoded header returns all eleven
\* fields, each with the value encoded; the player_car_index returned is
\* the player index encoded.
C13_HeaderRoundTrip ==
    (Returned("parse_header") /\ "header" \in DOMAIN fin) =>
        /\ IsResult(fout[1])
        /\ \A k \in 1..Len(HeaderFields) :
            /\ HeaderFields[k] \in DOMAIN fout[1]
            /\ fout[1][HeaderFields[k]] = fin.header[HeaderFields[k]]

\* the header the replay sender writes for a telemetry packet at frame 7
\* has been parsed: the player_car_index returned is the overall frame
\* identifier, and two fields are not returned
C13_Witness ==
    /\ Returned("parse_header")
    /\ "header" \in DOMAIN fin
    /\ fin.header.player_car_index = LE(0, 1)
    /\ fin.header.overall_frame_identifier = LE(7, 4)
    /\ fout[1].player_car_index = LE(7, 4)
    /\ fout[1].packet_id = fin.header.packet_id
    /\ "secondary_player_car_index" \notin DOMAIN fout[1]

\* C14: for every car index 0..255 and buffer length, parse_car_telemetry
\* and parse_lap_data fail exactly when the buffer is shorter than
\* 28 + (index + 1) * size, with size 60 and 43, and otherwise return the
\* record that starts at byte 28 + index * size.
C14_LengthGuard ==
    /\ Returned("parse_car_telemetry") =>
        /\ ~IsResult(fout[1]) <=> fin.packet.len < 28 + (fin.player_index + 1) * 60
        /\ IsResult(fout[1]) => fout[1] = CarRecord(fin.player_index)
    /\ Returned("parse_lap_data") =>
        /\ ~IsResult(fout[1]) <=> fin.packet.len < 28 + (fin.player_index + 1) * 43
        /\ IsResult(fout[1]) => fout[1] = LapRecord(fin.player_index)

\* both parsers have acted at the boundary: the last car's record returned
\* from a buffer of exactly the length needed, and a failure one byte short
C14_Witness ==
    \/ /\ Returned("parse_car_telemetry")
       /\ fin.player_index = MaxCarIndex
       /\ fin.packet.len = Needed(MaxCarIndex, CarDataSize)
       /\ IsResult(fout[1])
    \/ /\ Returned("parse_lap_data")
       /\ fin.player_index = 1
       /\ fin.packet.len = Needed(1, LapDataSize) - 1
       /\ ~IsResult(fout[1])

\* ------------------------------------------------------ the analysis engine
\*
\* telemetry_utils works on pandas tables of floating-point columns.  A
\* number is here an exact fraction <<n, d>> in lowest terms with d > 0, so
\* seconds, km/h and metres keep the source's units; <<0, 0>> is NaN.

NaN == <<0, 0>>

IsNaN(a) == a[2] = 0

Abs(n) == IF n < 0 THEN -n ELSE n

RECURSIVE GCD(_, _)
GCD(a, b) == IF b = 0 THEN a ELSE GCD(b, a % b)

\* the fraction n/d in lowest terms
Q(n, d) ==
    IF d = 0 THEN NaN
    ELSE LET g == GCD(Abs(n), Abs(d))
             sgn == IF d < 0 THEN -1 ELSE 1
         IN  <<(sgn * n) \div g, (sgn * d) \div g>>

QInt(n) == <<n, 1>>

QAdd(a, b) ==
    IF IsNaN(a) \/ IsNaN(b) THEN NaN
    ELSE Q(a[1] * b[2] + b[1] * a[2], a[2] * b[2])

QSub(a, b) ==
    IF IsNaN(a) \/ IsNaN(b) THEN NaN
    ELSE Q(a[1] * b[2] - b[1] * a[2], a[2] * b[2])

QMul(a, b) ==
    IF IsNaN(a) \/ IsNaN(b) THEN NaN ELSE Q(a[1] * b[1], a[2] * b[2])

\* x / 0 is inf or NaN in floating point; the only use made of it is
\* multiplied by zero or added to, which gives NaN
QDiv(a, b) ==
    IF IsNaN(a) \/ IsNaN(b) THEN NaN ELSE Q(a[1] * b[2], a[2] * b[1])

\* comparisons with NaN are false
QLess(a, b) == ~IsNaN(a) /\ ~IsNaN(b) /\ a[1] * b[2] < b[1] * a[2]

QLeq(a, b) == ~IsNaN(a) /\ ~IsNaN(b) /\ a[1] * b[2] <= b[1] * a[2]

\* Python's max(a, b) and min(a, b): b is taken only when it compares
\* greater (smaller) than a
QMax(a, b) == IF QLess(a, b) THEN b ELSE a

QMin(a, b) == IF QLess(b, a) THEN b ELSE a

RECURSIVE SeqMax(_)
\* Series.max()
SeqMax(xs) ==
    IF Len(xs) = 1 THEN xs[1] ELSE QMax(xs[1], SeqMax(Tail(xs)))

RECURSIVE SeqMin(_)
\* Series.min()
SeqMin(xs) ==
    IF Len(xs) = 1 THEN xs[1] ELSE QMin(xs[1], SeqMin(Tail(xs)))

\* A table: its column names and its rows in order, each row a record
\* over the columns.
DataFrame(columns, rows) == [columns |-> columns, rows |-> rows]

\* pd.DataFrame()
EmptyFrame == DataFrame({}, <<>>)

\* df.empty
IsEmpty(df) == df.rows = <<>>

\* an exception leaving the function
Raise(e) == [raised |-> e]

Raised(result) == "raised" \in DOMAIN result

\* df[c] as a sequence
Column(df, c) == [k \in 1..Len(df.rows) |-> df.rows[k][c]]

\* the drivers in the order their codes sort
DriverCodes == <<"HAM", "VER">>

DriverRank(driver) == CHOOSE k \in 1..Len(DriverCodes) : DriverCodes[k] = driver

\* the value of column c of a row as sort_values compares it
SortKey(row, c) ==
    IF c = "driver" THEN QInt(DriverRank(row[c]))
    ELSE IF c = "lap" THEN QInt(row[c])
    ELSE row[c]

RECURSIVE RowBefore(_, _, _)
\* row r sorts strictly before row q by the columns of by, in turn
RowBefore(r, q, by) ==
    /\ by # <<>>
    /\ \/ QLess(SortKey(r, Head(by)), SortKey(q, Head(by)))
       \/ /\ SortKey(r, Head(by)) = SortKey(q, Head(by))
          /\ RowBefore(r, q, Tail(by))

RECURSIVE InsertRow(_, _, _)
InsertRow(r, sorted, by) ==
    IF sorted = <<>> THEN <<r>>
    ELSE IF RowBefore(r, Head(sorted), by) THEN <<r>> \o sorted
    ELSE <<Head(sorted)>> \o InsertRow(r, Tail(sorted), by)

\* the rows left in the order they came
RowsAsGiven(rows, by) == rows

RECURSIVE SortedRows(_, _)
\* sort_values(by): the rows in ascending order of the columns of by
SortedRows(rows, by) ==
    IF rows = <<>> THEN <<>>
    ELSE InsertRow(rows[Len(rows)],
                   SortedRows(SubSeq(rows, 1, Len(rows) - 1), by), by)

\* group['speed_kph'] * 1000 / 3600
SpeedMs(speed_kph) == QDiv(QMul(speed_kph, QInt(1000)), QInt(3600))

\* rows i-1 and i of a table sorted by driver, lap and time belong to
\* different (driver, lap) groups, or i is the first row
GroupStart(rows, i) ==
    \/ i = 1
    \/ rows[i - 1].driver # rows[i].driver
    \/ rows[i - 1].lap # rows[i].lap

RECURSIVE DistanceAt(_, _)
\* calc_distance: time_stamp.diff().fillna(0), times the speed in m/s,
\* summed from the start of the group
DistanceAt(rows, i) ==
    IF GroupStart(rows, i)
    THEN QMul(SpeedMs(rows[i].speed_kph), QInt(0))
    ELSE QAdd(DistanceAt(rows, i - 1),
              QMul(SpeedMs(rows[i].speed_kph),
                   QSub(rows[i].time_stamp, rows[i - 1].time_stamp)))

\* row with column c set to v
WithColumn(row, c, v) == (c :> v) @@ row

compute_distance_along_lap(df) ==
    IF "dist_along_lap" \in df.columns THEN df
    ELSE IF "speed_kph" \notin df.columns THEN df
    ELSE LET sorted == SortedRows(df.rows, <<"driver", "lap", "time_stamp">>)
         IN  DataFrame(df.columns \cup {"dist_along_lap"},
                       [i \in 1..Len(sorted) |->
                           WithColumn(sorted[i], "dist_along_lap",
                                      DistanceAt(sorted, i))])

RECURSIVE SeqSum(_)
SeqSum(xs) == IF xs = <<>> THEN QInt(0) ELSE QAdd(Head(xs), SeqSum(Tail(xs)))

\* Series.mean()
Mean(xs) == QDiv(SeqSum(xs), QInt(Len(xs)))

QAbs(a) == <<Abs(a[1]), a[2]>>

\* the point of the parametric track shape at the given fraction of a
\* turn: theta = turn * 2 * pi, and x and y are sums of sines and cosines
\* of theta
TrackShape(axis, turn) == [axis |-> axis, turn |-> turn]

normalize_track_coordinates(df, use_gps) ==
    IF use_gps /\ "lat" \in df.columns /\ "long" \in df.columns
    THEN LET x_center == Mean(Column(df, "long"))
             y_center == Mean(Column(df, "lat"))
             x == [k \in 1..Len(df.rows) |-> QSub(df.rows[k].long, x_center)]
             y == [k \in 1..Len(df.rows) |-> QSub(df.rows[k].lat, y_center)]
             max_range == QMax(SeqMax([k \in DOMAIN x |-> QAbs(x[k])]),
                               SeqMax([k \in DOMAIN y |-> QAbs(y[k])]))
             scale == IF QLess(QInt(0), max_range) THEN max_range
                                                   ELSE QInt(1)
         IN  DataFrame(df.columns \cup {"x_coord", "y_coord"},
                       [k \in 1..Len(df.rows) |->
                           WithColumn(WithColumn(df.rows[k],
                               "x_coord", QDiv(x[k], scale)),
                               "y_coord", QDiv(y[k], scale))])
    ELSE LET with_dist == IF "dist_along_lap" \notin df.columns
                          THEN compute_distance_along_lap(df)
                          ELSE df
         IN  IF "dist_along_lap" \notin with_dist.columns
             THEN Raise("KeyError")
             ELSE LET max_dist == SeqMax(Column(with_dist, "dist_along_lap"))
                      xy(row, axis) ==
                          IF QLess(QInt(0), max_dist)
                          THEN TrackShape(axis,
                                   QDiv(row.dist_along_lap, max_dist))
                          ELSE QInt(0)
                  IN  DataFrame(with_dist.columns \cup {"x_coord", "y_coord"},
                                [k \in 1..Len(with_dist.rows) |->
                                    WithColumn(WithColumn(with_dist.rows[k],
                                        "x_coord", xy(with_dist.rows[k], "x")),
                                        "y_coord", xy(with_dist.rows[k], "y"))])

\* a grid of num steps that stops one step short of the end
linspace_open(first, last, num) ==
    [k \in 1..num |->
        QAdd(first, QMul(QInt(k - 1), QDiv(QSub(last, first), QInt(num))))]

\* np.linspace(start, stop, num)
linspace(first, last, num) ==
    [k \in 1..num |->
        IF num = 1 THEN first
        ELSE QAdd(first, QMul(QInt(k - 1),
                              QDiv(QSub(last, first), QInt(num - 1))))]

\* np.searchsorted(x, x_new): how many entries of the sorted x lie
\* strictly below x_new
searchsorted(x, x_new) == Cardinality({k \in DOMAIN x : QLess(x[k], x_new)})

\* np.clip(i, lo, hi): the larger of i and lo, then the smaller of that
\* and hi
clip(i, lo, hi) ==
    LET raised == IF i < lo THEN lo ELSE i
    IN  IF raised > hi THEN hi ELSE raised

\* interp1d(x, y, kind='linear', fill_value='extrapolate')(x_new) for x
\* sorted: the line through the two samples around x_new, or through the
\* outermost two; with a single sample both ends are that sample
interp1d(x, y, x_new) ==
    LET hi == clip(searchsorted(x, x_new), 1, Len(x) - 1)
        lo == hi - 1
        x_lo == IF lo < 0 THEN x[Len(x)] ELSE x[lo + 1]
        y_lo == IF lo < 0 THEN y[Len(y)] ELSE y[lo + 1]
        slope == QDiv(QSub(y[hi + 1], y_lo), QSub(x[hi + 1], x_lo))
    IN  QAdd(QMul(slope, QSub(x_new, x_lo)), y_lo)

\* interpolate_lap_by_distance with the grid given: the lap sorted by
\* distance and its time read at each grid point
interpolate_lap_by_distance(lap, distance_grid) ==
    LET sorted == SortedRows(lap.rows, <<"dist_along_lap">>)
        x == [k \in 1..Len(sorted) |-> sorted[k].dist_along_lap]
        y == [k \in 1..Len(sorted) |-> sorted[k].time_stamp]
    IN  DataFrame({"dist_along_lap", "time_stamp"},
                  [k \in 1..Len(distance_grid) |->
                      [dist_along_lap |-> distance_grid[k],
                       time_stamp |-> interp1d(x, y, distance_grid[k])]])

\* the ranges are taken as overlapping when they only touch
NoCommonRangeStrict(min_dist, max_dist) == QLess(max_dist, min_dist)

\* "if min_dist >= max_dist"
NoCommonRange(min_dist, max_dist) == QLeq(max_dist, min_dist)

\* the deltas themselves in place of their running sum
no_cumsum(xs, k) == xs[k]

RECURSIVE cumsum(_, _)
\* np.cumsum(xs)[k]
cumsum(xs, k) == IF k = 1 THEN xs[1] ELSE QAdd(cumsum(xs, k - 1), xs[k])

compute_lap_delta(lap_a_data, lap_b_data, num_points) ==
    LET lap_a == IF "dist_along_lap" \notin lap_a_data.columns
                 THEN compute_distance_along_lap(lap_a_data)
                 ELSE lap_a_data
        lap_b == IF "dist_along_lap" \notin lap_b_data.columns
                 THEN compute_distance_along_lap(lap_b_data)
                 ELSE lap_b_data
    IN  IF \/ "dist_along_lap" \notin lap_a.columns
           \/ "dist_along_lap" \notin lap_b.columns
        THEN EmptyFrame
        ELSE
        LET min_dist == QMax(SeqMin(Column(lap_a, "dist_along_lap")),
                             SeqMin(Column(lap_b, "dist_along_lap")))
            max_dist == QMin(SeqMax(Column(lap_a, "dist_along_lap")),
                             SeqMax(Column(lap_b, "dist_along_lap")))
        IN  IF NoCommonRange(min_dist, max_dist)
            THEN EmptyFrame
            ELSE
            LET distance_grid == linspace(min_dist, max_dist, num_points)
                a == interpolate_lap_by_distance(lap_a, distance_grid)
                b == interpolate_lap_by_distance(lap_b, distance_grid)
                delta_ms == [k \in 1..num_points |->
                                QMul(QSub(b.rows[k].time_stamp,
                                          a.rows[k].time_stamp),
                                     QInt(1000))]
            IN  IF IsEmpty(a) \/ IsEmpty(b)
                THEN EmptyFrame
                ELSE
                DataFrame({"distance", "delta_ms", "delta_color",
                           "cumulative_delta"},
                          [k \in 1..num_points |->
                              [distance |-> distance_grid[k],
                               delta_ms |-> delta_ms[k],
                               delta_color |->
                                   IF QLess(delta_ms[k], QInt(0))
                                   THEN "#7eff7a" ELSE "#ff4654",
                               cumulative_delta |-> cumsum(delta_ms, k)]])

\* a Python list returned: its items in order
List(items) == [items |-> items]

\* f'Corner {n}'
CornerName(n) == <<"Corner", n>>

\* lap.loc[start:idx], .loc taking both ends in: the rows from the one
\* labelled start to the one labelled idx
LocSlice(rows, start, idx) == SubSeq(rows, start, idx)

\* the dict appended for a segment
CornerOf(corner_segment, n) ==
    [name |-> CornerName(n),
     start_dist |-> corner_segment[1].dist_along_lap,
     end_dist |-> corner_segment[Len(corner_segment)].dist_along_lap,
     min_speed |-> SeqMin([k \in DOMAIN corner_segment |->
                              corner_segment[k].speed_kph])]

RECURSIVE CornerScan(_, _, _, _, _, _, _)
\* the loop over the rows, from row idx on: in_corner and corner_start_idx
\* as the loop holds them, corners as collected so far
CornerScan(rows, idx, in_corner, corner_start_idx, corners, speed_threshold, min_duration) ==
    IF idx > Len(rows) THEN corners
    ELSE LET is_corner == QLess(rows[idx].speed_kph, speed_threshold)
         IN  IF is_corner /\ ~in_corner
             THEN CornerScan(rows, idx + 1, TRUE, idx, corners,
                             speed_threshold, min_duration)
             ELSE IF ~is_corner /\ in_corner
             THEN LET corner_segment ==
                          LocSlice(rows, corner_start_idx, idx)
                      times == [k \in DOMAIN corner_segment |->
                                   corner_segment[k].time_stamp]
                      duration == QSub(SeqMax(times), SeqMin(times))
                      found == IF QLeq(min_duration, duration)
                               THEN Append(corners,
                                        CornerOf(corner_segment,
                                                 Len(corners) + 1))
                               ELSE corners
                  IN  CornerScan(rows, idx + 1, FALSE, corner_start_idx,
                                 found, speed_threshold, min_duration)
             ELSE CornerScan(rows, idx + 1, in_corner, corner_start_idx,
                             corners, speed_threshold, min_duration)

find_corner_zones(lap, speed_threshold, min_duration) ==
    LET with_dist == IF "dist_along_lap" \notin lap.columns
                     THEN compute_distance_along_lap(lap)
                     ELSE lap
    IN  IF "speed_kph" \notin with_dist.columns
        THEN Raise("KeyError")
        ELSE IF "dist_along_lap" \notin with_dist.columns
        THEN Raise("KeyError")
        ELSE List(CornerScan(SortedRows(with_dist.rows, <<"time_stamp">>),
                             1, FALSE, 0, <<>>, speed_threshold,
                             min_duration))

\* delta_df[(distance >= start_dist) & (distance <= end_dist)]
InCorner(delta_df, corner) ==
    SelectSeq(delta_df.rows,
              LAMBDA row : /\ QLeq(corner.start_dist, row.distance)
                           /\ QLeq(row.distance, corner.end_dist))

RECURSIVE CornerDeltasFrom(_, _, _)
CornerDeltasFrom(delta_df, corners, k) ==
    IF k > Len(corners) THEN <<>>
    ELSE LET corner_delta == InCorner(delta_df, corners[k])
             delta_change ==
                 QSub(corner_delta[Len(corner_delta)].delta_ms,
                      corner_delta[1].delta_ms)
             rest == CornerDeltasFrom(delta_df, corners, k + 1)
         IN  IF corner_delta = <<>> THEN rest
             ELSE <<[name |-> corners[k].name,
                     delta_ms |-> delta_change,
                     type |-> IF QLess(delta_change, QInt(0))
                              THEN "gain" ELSE "loss"]>> \o rest

compute_corner_deltas(delta_df, corners) ==
    IF corners.items = <<>> THEN List(<<>>)
    ELSE IF "distance" \notin delta_df.columns THEN Raise("KeyError")
    ELSE List(CornerDeltasFrom(delta_df, corners.items, 1))

\* ---- the engine's inputs

\* config.REQUIRED_COLUMNS
REQUIRED_COLUMNS == {"driver", "lap", "time_stamp"}

\* the optional channels a table may carry
Channels == {"speed_kph", "dist_along_lap", "lat", "long"}

\* a sample with every channel
Sample(driver, lap, t, v, dist, lat, long) ==
    [driver |-> driver, lap |-> lap, time_stamp |-> t, speed_kph |-> QInt(v),
     dist_along_lap |-> QInt(dist), lat |-> QInt(lat), long |-> QInt(long)]

\* the table of the samples restricted to the columns
Table(samples, columns) ==
    DataFrame(columns,
              [k \in 1..Len(samples) |-> [c \in columns |-> samples[k][c]]])

\* Laps recorded: a lap with one dip of a second below 200 km/h; the same
\* lap driven slower through the dip; a stretch that starts where the
\* first lap ends; a stretch beyond it; a single sample.
Laps ==
    {<<Sample("VER", 1, QInt(0), 288, 0, 0, 0),
       Sample("VER", 1, QInt(1), 144, 40, 2, 1),
       Sample("VER", 1, QInt(2), 144, 80, 4, 0),
       Sample("VER", 1, QInt(3), 288, 160, 2, -1)>>,
     <<Sample("VER", 2, QInt(10), 288, 0, 0, 0),
       Sample("VER", 2, Q(23, 2), 96, 40, 2, 1),
       Sample("VER", 2, QInt(13), 96, 80, 4, 0),
       Sample("VER", 2, QInt(14), 288, 160, 2, -1)>>,
     <<Sample("HAM", 1, QInt(0), 216, 160, 0, 0),
       Sample("HAM", 1, QInt(1), 216, 220, 0, 0)>>,
     <<Sample("HAM", 2, QInt(0), 252, 200, 1, 1),
       Sample("HAM", 2, QInt(2), 180, 300, 3, 2)>>,
     <<Sample("HAM", 3, QInt(5), 90, 100, 1, 1)>>}

\* the column sets: the required columns and any of speed, distance, GPS
ColumnSets ==
    {REQUIRED_COLUMNS \cup opt :
        opt \in {o \in SUBSET Channels : ("lat" \in o) <=> ("long" \in o)}}

LapTables == {Table(l, cs) : l \in Laps, cs \in ColumnSets}

\* Samples of two drivers' laps, in every row order: three samples of one
\* lap at uneven intervals, at rest or moving, and two of another lap.
Shuffled ==
    LET n == 5
        Perms == {f \in [1..n -> 1..n] :
                     \A a, b \in 1..n : a # b => f[a] # f[b]}
        rows(v1, v2, v3) ==
            <<Sample("VER", 1, QInt(0), v1, 0, 0, 0),
              Sample("VER", 1, Q(1, 2), v2, 0, 0, 0),
              Sample("VER", 1, Q(3, 2), v3, 0, 0, 0),
              Sample("HAM", 1, Q(1, 4), 270, 0, 0, 0),
              Sample("HAM", 1, QInt(1), 90, 0, 0, 0)>>
    IN  {Table([k \in 1..n |-> rows(v1, v2, v3)[f[k]]],
               REQUIRED_COLUMNS \cup {"speed_kph"}) :
            v1 \in {0, 180}, v2 \in {0, 180}, v3 \in {90, 180}, f \in Perms}

\* the default speed_threshold and min_duration of find_corner_zones
DefaultThreshold == 200
DefaultMinDuration == 1

\* the longest dip, in samples, and the grid sizes tried
MaxDip == 6
MaxPoints == 3

\* sampling intervals, in seconds
Intervals == {Q(1, 5), Q(1, 2), QInt(1)}

\* A lap with one dip: lead samples above the threshold, dip samples
\* below it, tail samples above it, h apart.
DipTrace(h, lead, dip, tail) ==
    Table([k \in 1..(lead + dip + tail) |->
              Sample("VER", 1, QMul(QInt(k - 1), h),
                     IF k <= lead \/ k > lead + dip THEN 252
                     ELSE IF k = lead + 1 THEN 90 ELSE 144,
                     0, 0, 0)],
          REQUIRED_COLUMNS \cup {"speed_kph"})

DipTraces ==
    {DipTrace(h, lead, dip, tail) :
        h \in Intervals, lead \in 1..2, dip \in 1..MaxDip, tail \in 1..2}

\* laps that end inside the dip
OpenDipTraces ==
    {DipTrace(h, 1, dip, 0) : h \in Intervals, dip \in 1..MaxDip}

\* zone lists handed to compute_corner_deltas
ZoneLists ==
    {List(<<>>),
     List(<<[name |-> CornerName(1), start_dist |-> QInt(40),
             end_dist |-> QInt(160), min_speed |-> QInt(144)]>>),
     List(<<[name |-> CornerName(1), start_dist |-> QInt(0),
             end_dist |-> QInt(80), min_speed |-> QInt(144)],
            [name |-> CornerName(2), start_dist |-> QInt(500),
             end_dist |-> QInt(600), min_speed |-> QInt(90)],
            [name |-> CornerName(3), start_dist |-> QInt(80),
             end_dist |-> QInt(160), min_speed |-> QInt(90)]>>)}

InitEngineInput ==
    \/ /\ fname = "compute_distance_along_lap"
       /\ \E df \in Shuffled \cup LapTables : fin = [df |-> df]
    \/ /\ fname = "normalize_track_coordinates"
       /\ \E df \in LapTables, use_gps \in BOOLEAN :
            fin = [df |-> df, use_gps |-> use_gps]
    \/ /\ fname = "compute_lap_delta"
       /\ \E a \in LapTables, b \in LapTables, n \in 1..MaxPoints :
            fin = [lap_a_data |-> a, lap_b_data |-> b, num_points |-> n]
    \/ /\ fname = "find_corner_zones"
       /\ \E lap \in LapTables \cup DipTraces \cup OpenDipTraces,
             min_duration \in {QInt(DefaultMinDuration), Q(1, 2)} :
            fin = [lap |-> lap, speed_threshold |-> QInt(DefaultThreshold),
                   min_duration |-> min_duration]
    \/ /\ fname = "compute_corner_deltas"
       /\ \E a \in LapTables, b \in LapTables, corners \in ZoneLists :
            /\ a.rows[1].driver = "VER"
            /\ b.rows[1].driver = "VER"
            /\ fin = [lap_a_data |-> a, lap_b_data |-> b,
                      delta_df |-> compute_lap_delta(a, b, MaxPoints),
                      corners |-> corners]

InitEngine ==
    /\ now = ClockStart
    /\ InitStore
    /\ InitGhost
    /\ InitCaller
    /\ InitConstructed
    /\ InitConc
    /\ InitNoListener
    /\ InitEngineInput
    /\ fout = <<>>

ComputeDistanceAlongLap ==
    /\ fname = "compute_distance_along_lap"
    /\ Return(compute_distance_along_lap(fin.df))

NormalizeTrackCoordinates ==
    /\ fname = "normalize_track_coordinates"
    /\ Return(normalize_track_coordinates(fin.df, fin.use_gps))

ComputeLapDelta ==
    /\ fname = "compute_lap_delta"
    /\ Return(compute_lap_delta(fin.lap_a_data, fin.lap_b_data,
                                fin.num_points))

FindCornerZones ==
    /\ fname = "find_corner_zones"
    /\ Return(find_corner_zones(fin.lap, fin.speed_threshold,
                                fin.min_duration))

ComputeCornerDeltas ==
    /\ fname = "compute_corner_deltas"
    /\ Return(compute_corner_deltas(fin.delta_df, fin.corners))

NextEngine ==
    \/ ComputeDistanceAlongLap
    \/ NormalizeTrackCoordinates
    \/ ComputeLapDelta
    \/ FindCornerZones
    \/ ComputeCornerDeltas

SpecEngine == InitEngine /\ [][NextEngine]_vars

\* the table has the identity columns and no speed channel
LacksSpeed(df) ==
    REQUIRED_COLUMNS \subseteq df.columns /\ "speed_kph" \notin df.columns

\* it has no distance channel either, so that no distance can be had
LacksDistance(df) == LacksSpeed(df) /\ "dist_along_lap" \notin df.columns

\* C15 (as claimed): a stage given a lap table with driver, lap and
\* time_stamp but no speed channel never raises, and where the table has
\* no distance either its result is empty or unavailable: no distance
\* column, no coordinates, an empty delta table, no zones, no corner
\* deltas.
C15_MissingSpeedNeverRaises ==
    /\ (Returned("compute_distance_along_lap") /\ LacksSpeed(fin.df)) =>
        /\ ~Raised(fout[1])
        /\ LacksDistance(fin.df) => "dist_along_lap" \notin fout[1].columns
    /\ (/\ Returned("normalize_track_coordinates")
        /\ LacksSpeed(fin.df)
        /\ ~(fin.use_gps /\ "lat" \in fin.df.columns)) =>
        /\ ~Raised(fout[1])
        /\ LacksDistance(fin.df) =>
              \A k \in DOMAIN fout[1].rows :
                  fout[1].rows[k].x_coord = QInt(0)
    /\ (/\ Returned("compute_lap_delta")
        /\ LacksSpeed(fin.lap_a_data) \/ LacksSpeed(fin.lap_b_data)) =>
        /\ ~Raised(fout[1])
        /\ (LacksDistance(fin.lap_a_data) \/ LacksDistance(fin.lap_b_data))
              => IsEmpty(fout[1])
    /\ (Returned("find_corner_zones") /\ LacksSpeed(fin.lap)) =>
        /\ ~Raised(fout[1])
        /\ fout[1].items = <<>>
    /\ (/\ Returned("compute_corner_deltas")
        /\ LacksDistance(fin.lap_a_data) \/ LacksDistance(fin.lap_b_data)) =>
        /\ ~Raised(fout[1])
        /\ fout[1].items = <<>>

\* find_corner_zones was given a lap with driver, lap and time_stamp only
\* and raised KeyError
C15_Witness ==
    /\ Returned("find_corner_zones")
    /\ fin.lap.columns = REQUIRED_COLUMNS
    /\ fout[1] = Raise("KeyError")

\* the distances of a lap as compute_lap_delta takes them: the column
\* given, or else the one computed
Distances(df) == Column(compute_distance_along_lap(df), "dist_along_lap")

HasDistances(df) ==
    "dist_along_lap" \in df.columns \/ "speed_kph" \in df.columns

\* low and high of two laps' common distance range
Low(a, b) == QMax(SeqMin(Distances(a)), SeqMin(Distances(b)))

High(a, b) == QMin(SeqMax(Distances(a)), SeqMax(Distances(b)))

\* C16: compute_lap_delta returns an empty table whenever low >= high,
\* low being the larger of the two laps' smallest distances and high the
\* smaller of their largest distances; a non-empty table is returned only
\* when low < high.
C16_EmptyWithoutOverlap ==
    (/\ Returned("compute_lap_delta")
     /\ HasDistances(fin.lap_a_data)
     /\ HasDistances(fin.lap_b_data)
     /\ QLeq(High(fin.lap_a_data, fin.lap_b_data),
             Low(fin.lap_a_data, fin.lap_b_data)))
        => IsEmpty(fout[1])

\* two laps of several samples whose ranges touch in a single point were
\* compared and the result is empty
C16_Witness ==
    /\ Returned("compute_lap_delta")
    /\ HasDistances(fin.lap_a_data)
    /\ HasDistances(fin.lap_b_data)
    /\ Len(fin.lap_a_data.rows) > 1
    /\ Len(fin.lap_b_data.rows) > 1
    /\ High(fin.lap_a_data, fin.lap_b_data) = Low(fin.lap_a_data, fin.lap_b_data)
    /\ IsEmpty(fout[1])

\* rows a and b of a table are of the same driver and lap
SameGroup(rows, a, b) ==
    rows[a].driver = rows[b].driver /\ rows[a].lap = rows[b].lap

\* the rows of i's group that come before row i in time
Earlier(rows, i) ==
    {j \in DOMAIN rows : /\ SameGroup(rows, i, j)
                         /\ QLess(rows[j].time_stamp, rows[i].time_stamp)}

\* the one of them that comes last
Previous(rows, i) ==
    CHOOSE j \in Earlier(rows, i) :
        \A k \in Earlier(rows, i) :
            QLeq(rows[k].time_stamp, rows[j].time_stamp)

\* C17: for a table with non-negative speeds, in whatever row order, the
\* table returned has the same samples, and within each (driver, lap)
\* group taken in time order the first distance is 0, each further one is
\* the previous one plus speed_ms * (time - previous time), and distances
\* never decrease.
C17_DistanceRecurrence ==
    (/\ Returned("compute_distance_along_lap")
     /\ "speed_kph" \in fin.df.columns
     /\ "dist_along_lap" \notin fin.df.columns
     /\ \A k \in DOMAIN fin.df.rows :
            QLeq(QInt(0), fin.df.rows[k].speed_kph))
        => LET out == fout[1].rows
           IN  /\ Len(out) = Len(fin.df.rows)
               /\ \A k \in DOMAIN fin.df.rows :
                    \E i \in DOMAIN out :
                        \A c \in fin.df.columns : out[i][c] = fin.df.rows[k][c]
               /\ \A i \in DOMAIN out :
                    IF Earlier(out, i) = {}
                    THEN out[i].dist_along_lap = QInt(0)
                    ELSE LET p == Previous(out, i)
                         IN  out[i].dist_along_lap =
                                QAdd(out[p].dist_along_lap,
                                     QMul(SpeedMs(out[i].speed_kph),
                                          QSub(out[i].time_stamp,
                                               out[p].time_stamp)))
               /\ \A i, j \in DOMAIN out :
                    (/\ SameGroup(out, i, j)
                     /\ QLeq(out[i].time_stamp, out[j].time_stamp))
                        => QLeq(out[i].dist_along_lap, out[j].dist_along_lap)

\* a table whose first two rows are of one lap and out of time order was
\* given, and a row of the result lies at 75 metres
C17_Witness ==
    /\ Returned("compute_distance_along_lap")
    /\ "dist_along_lap" \notin fin.df.columns
    /\ Len(fin.df.rows) > 2
    /\ SameGroup(fin.df.rows, 1, 2)
    /\ QLess(fin.df.rows[2].time_stamp, fin.df.rows[1].time_stamp)
    /\ \E i \in DOMAIN fout[1].rows :
            fout[1].rows[i].dist_along_lap = QInt(75)

\* the samples of a lap below the threshold
BelowThreshold(lap, speed_threshold) ==
    {k \in DOMAIN lap.rows : QLess(lap.rows[k].speed_kph, speed_threshold)}

\* they are one contiguous dip: every sample between two of them in time
\* is one of them
SingleDip(lap, speed_threshold) ==
    LET below == BelowThreshold(lap, speed_threshold)
    IN  /\ below # {}
        /\ \A k \in DOMAIN lap.rows :
            (\E a, b \in below :
                /\ QLeq(lap.rows[a].time_stamp, lap.rows[k].time_stamp)
                /\ QLeq(lap.rows[k].time_stamp, lap.rows[b].time_stamp))
                => k \in below

\* from the first sample below the threshold to the last
DipDuration(lap, speed_threshold) ==
    LET times == {lap.rows[k].time_stamp :
                     k \in BelowThreshold(lap, speed_threshold)}
        first == CHOOSE t \in times : \A u \in times : QLeq(t, u)
        last == CHOOSE t \in times : \A u \in times : QLeq(u, t)
    IN  QSub(last, first)

\* C18 (as claimed): for a lap with a single contiguous dip below the
\* threshold, find_corner_zones returns exactly one zone when the dip
\* lasts at least min_duration from its first to its last sample, and no
\* zone when it lasts less, at every sampling interval.
C18_OneZonePerLongDip ==
    (/\ Returned("find_corner_zones")
     /\ "speed_kph" \in fin.lap.columns
     /\ SingleDip(fin.lap, fin.speed_threshold))
        => /\ ~Raised(fout[1])
           /\ Len(fout[1].items) =
                 IF QLeq(fin.min_duration,
                         DipDuration(fin.lap, fin.speed_threshold))
                 THEN 1 ELSE 0

\* a lap sampled every half second, with a dip of two samples (half a
\* second) followed by samples above the threshold, was searched with
\* min_duration of one second, and a zone was returned
C18_Witness ==
    /\ Returned("find_corner_zones")
    /\ fin.lap \in DipTraces
    /\ fin.lap.rows[2].time_stamp = Q(1, 2)
    /\ Cardinality(BelowThreshold(fin.lap, fin.speed_threshold)) = 2
    /\ DipDuration(fin.lap, fin.speed_threshold) = Q(1, 2)
    /\ fin.min_duration = QInt(1)
    /\ Len(fout[1].items) = 1

\* a datagram with a complete header and a body that holds what its
\* packet id announces: the player's car or lap record, or the session
\* segment after the 28-byte header
Complete(d) ==
    /\ d.len >= HeaderSize
    /\ \/ /\ d.packet_id = PACKET_ID_CAR_TELEMETRY
          /\ d.len >= Needed(d.player_index, CarDataSize)
       \/ /\ d.packet_id = PACKET_ID_LAP_DATA
          /\ d.len >= Needed(d.player_index, LapDataSize)
       \/ /\ d.packet_id = PACKET_ID_SESSION
          /\ d.len >= HeaderSize + SessionSize

\* the one store update a complete datagram is claimed to cause
Forwarded(d) ==
    /\ is_connected'
    /\ last_update_time' = now
    /\ d.packet_id = PACKET_ID_CAR_TELEMETRY =>
        /\ writes' = writes + 1
        /\ \A k \in DOMAIN CarRecord(d.player_index) \ {"tyres_surface_temp"} :
              telemetry'[k] = CarRecord(d.player_index)[k]
        /\ lists'[telemetry'.tyres_surface_temp] =
              CarRecord(d.player_index).tyres_surface_temp
        /\ UNCHANGED <<lap_data, session>>
    /\ d.packet_id = PACKET_ID_LAP_DATA =>
        /\ \A k \in DOMAIN LapRecord(d.player_index) :
              lap_data'[k] = LapRecord(d.player_index)[k]
        /\ UNCHANGED <<telemetry, session, writes, buffer, history_index,
                       history_count>>
    /\ d.packet_id = PACKET_ID_SESSION =>
        /\ session' # InitSession
        /\ UNCHANGED <<telemetry, lap_data, writes, buffer, history_index,
                       history_count>>

\* C20 (as claimed): handling a datagram with a complete header and a
\* sufficiently long body makes exactly one store update, chosen by the
\* packet id (6 telemetry, 2 lap data, 1 session), and for ids 6 and 2 the
\* record stored is the one at the header's player_car_index.
C20_OneUpdatePerDatagram ==
    [][ (lpc = "handle" /\ lpc' = "loop_test" /\ Complete(cur))
            => Forwarded(cur) ]_vars

\* a session datagram of 28 + 18 bytes was handled as the first datagram
\* and the store has not been updated
C20_Witness ==
    /\ lpc = "loop_test"
    /\ received = 1
    /\ cur.packet_id = PACKET_ID_SESSION
    /\ cur.len = HeaderSize + SessionSize
    /\ ~is_connected
    /\ session = InitSession

\* ---------------------------------------- frame conditions of the store

\* d2 is d1 with the keys of some sample replaced or added, the other
\* keys keeping their values
MergedInto(d1, d2, samples) ==
    \E data \in samples :
        /\ DOMAIN d2 = DOMAIN d1 \cup DOMAIN data
        /\ \A k \in DOMAIN data : d2[k] = data[k]
        /\ \A k \in DOMAIN d1 \ DOMAIN data : d2[k] = d1[k]

\* the step marks the connection alive at the current time
MarksAlive == is_connected' /\ last_update_time' = now

\* C21: update_telemetry writes exactly one history row (the slot under
\* the cursor; the cursor and the count advance by one, modulo and capped)
\* and merges only into the telemetry record; update_lap_data and
\* update_session merge only into their own record, keys absent from the
\* sample keeping their values, and leave the history rows, cursor, count
\* and the other two records unchanged; all three mark connected and
\* record last_update_time.
C21_UpdateFrames ==
    [][ /\ op' = "update_telemetry" =>
            /\ MergedInto(telemetry, telemetry', TelemetrySamples)
            /\ \A i \in Slots \ {history_index} : buffer'[i] = buffer[i]
            /\ history_index' = (history_index + 1) % MAX_HISTORY_LENGTH
            /\ history_count' =
                  IF history_count < MAX_HISTORY_LENGTH
                  THEN history_count + 1 ELSE MAX_HISTORY_LENGTH
            /\ writes' = writes + 1
            /\ UNCHANGED <<lap_data, session>>
            /\ MarksAlive
        /\ op' = "update_lap_data" =>
            /\ MergedInto(lap_data, lap_data', LapSamples)
            /\ UNCHANGED <<telemetry, session, buffer, history_index,
                           history_count>>
            /\ MarksAlive
        /\ op' = "update_session" =>
            /\ MergedInto(session, session', SessionSamples)
            /\ UNCHANGED <<telemetry, lap_data, buffer, history_index,
                           history_count>>
            /\ MarksAlive ]_vars

\* the partial telemetry sample was merged after the full one: throttle
\* and drs keep the full sample's values, and the session record has
\* gained the key the sample brought and kept the others
C21_Witness ==
    /\ op = "update_telemetry"
    /\ telemetry.speed = 80
    /\ telemetry.throttle = 1
    /\ telemetry.drs = 1
    /\ history_count = 2
    /\ lap_data.current_lap = 1
    /\ lap_data.best_lap_time = 0
    /\ "weather" \in DOMAIN session
    /\ session.track_id = 5
    /\ session.formula = 0

\* C30: get_snapshot and get_history_df(limit) never change the latest
\* telemetry, lap and session records, the history rows, the cursor, the
\* count or last_update_time, in any state and for any limit.
C30_ReadsChangeNothing ==
    [][ op' \in {"get_snapshot", "get_history_df"} =>
            UNCHANGED <<telemetry, lap_data, session, buffer, history_index,
                        history_count, last_update_time>> ]_vars

\* a snapshot was taken of a wrapped buffer gone stale: the connected
\* flag is down and the last update time is the one of the last write
C30_Witness ==
    /\ op = "get_snapshot"
    /\ writes > MAX_HISTORY_LENGTH
    /\ Full
    /\ Stale(now)
    /\ ~is_connected
    /\ last_update_time > 0

\* the rows find_corner_zones walks: the lap with its distances, in time
\* order
TimeOrdered(lap) ==
    SortedRows((IF "dist_along_lap" \in lap.columns
                THEN lap ELSE compute_distance_along_lap(lap)).rows,
               <<"time_stamp">>)

IsBelow(rows, k, speed_threshold) == QLess(rows[k].speed_kph, speed_threshold)

\* rows a..b are a maximal run of samples below the threshold
IsRun(rows, a, b, speed_threshold) ==
    /\ a <= b
    /\ \A k \in a..b : IsBelow(rows, k, speed_threshold)
    /\ a = 1 \/ ~IsBelow(rows, a - 1, speed_threshold)
    /\ b = Len(rows) \/ ~IsBelow(rows, b + 1, speed_threshold)

\* from the run's first sample to its last
RunDuration(rows, a, b) == QSub(rows[b].time_stamp, rows[a].time_stamp)

RunMinSpeed(rows, a, b) == SeqMin([k \in 1..(b - a + 1) |-> rows[a + k - 1].speed_kph])

\* the lap searched has a speed channel
ZonesSearched ==
    /\ Returned("find_corner_zones")
    /\ "speed_kph" \in fin.lap.columns
    /\ ~Raised(fout[1])

\* C22 (as claimed): every zone returned is a maximal run, in time order,
\* of samples below the threshold that lasts at least min_duration from
\* its first to its last sample; start_dist and end_dist are the distances
\* of those two samples, min_speed the least speed of the run, and the
\* zones are named Corner 1..n in the order of their runs.
C22_ZonesAreRuns ==
    ZonesSearched =>
        LET rows == TimeOrdered(fin.lap)
            zones == fout[1].items
        IN  \E first \in [DOMAIN zones -> DOMAIN rows] :
              /\ \A n, m \in DOMAIN zones : n < m => first[n] < first[m]
              /\ \A n \in DOMAIN zones :
                   \E b \in DOMAIN rows :
                     /\ IsRun(rows, first[n], b, fin.speed_threshold)
                     /\ QLeq(fin.min_duration, RunDuration(rows, first[n], b))
                     /\ zones[n].name = CornerName(n)
                     /\ zones[n].start_dist = rows[first[n]].dist_along_lap
                     /\ zones[n].end_dist = rows[b].dist_along_lap
                     /\ zones[n].min_speed = RunMinSpeed(rows, first[n], b)

\* the lap with samples at 0, 40, 80 and 160 m, the middle two below the
\* threshold, was searched: the zone returned ends at 160 m, the sample
\* back above the threshold
C22_Witness ==
    /\ ZonesSearched
    /\ Len(fin.lap.rows) = 4
    /\ fin.lap.rows[1].lap = 1
    /\ "dist_along_lap" \in fin.lap.columns
    /\ fin.lap.rows[3].dist_along_lap = QInt(80)
    /\ ~QLess(fin.lap.rows[4].speed_kph, fin.speed_threshold)
    /\ Len(fout[1].items) = 1
    /\ fout[1].items[1].start_dist = QInt(40)
    /\ fout[1].items[1].end_dist = QInt(160)

\* C29 (as claimed): every maximal run of samples below the threshold that
\* lasts at least min_duration is reported as a zone, a run that reaches
\* the final sample of the lap included.
C29_EveryLongRunReported ==
    ZonesSearched =>
        LET rows == TimeOrdered(fin.lap)
            zones == fout[1].items
        IN  \A a, b \in DOMAIN rows :
              (/\ IsRun(rows, a, b, fin.speed_threshold)
               /\ QLeq(fin.min_duration, RunDuration(rows, a, b)))
                 => \E n \in DOMAIN zones :
                      /\ zones[n].start_dist = rows[a].dist_along_lap
                      /\ zones[n].min_speed = RunMinSpeed(rows, a, b)

\* a lap sampled every second that is below the threshold from its second
\* sample to its last, five seconds later, was searched and no zone was
\* returned
C29_Witness ==
    /\ ZonesSearched
    /\ fin.lap \in OpenDipTraces
    /\ fin.lap.rows[2].time_stamp = QInt(1)
    /\ Len(fin.lap.rows) = 7
    /\ IsRun(TimeOrdered(fin.lap), 2, 7, fin.speed_threshold)
    /\ fin.min_duration = QInt(1)
    /\ fout[1].items = <<>>

\* the delta points of a table inside a zone, bounds included
PointsIn(delta_df, zone) ==
    {i \in DOMAIN delta_df.rows :
        /\ QLeq(zone.start_dist, delta_df.rows[i].distance)
        /\ QLeq(delta_df.rows[i].distance, zone.end_dist)}

\* the least and the greatest of a non-empty set of positions
Least(P) == CHOOSE i \in P : \A j \in P : i <= j

Greatest(P) == CHOOSE i \in P : \A j \in P : j <= i

\* C23 (as claimed): compute_corner_deltas returns, for each zone with at
\* least one delta point between start_dist and end_dist inclusive, the
\* delta_ms of the last such point minus that of the first, typed 'gain'
\* exactly when negative and 'loss' otherwise; zones with no delta point
\* are left out, and the order of the zones is kept.
C23_CornerDeltas ==
    Returned("compute_corner_deltas") =>
        /\ ~Raised(fout[1])
        /\ LET zones == fin.corners.items
               kept == SelectSeq([n \in DOMAIN zones |-> n],
                           LAMBDA n : PointsIn(fin.delta_df, zones[n]) # {})
               out == fout[1].items
           IN  /\ Len(out) = Len(kept)
               /\ \A n \in DOMAIN kept :
                    LET P == PointsIn(fin.delta_df, zones[kept[n]])
                        change == QSub(fin.delta_df.rows[Greatest(P)].delta_ms,
                                       fin.delta_df.rows[Least(P)].delta_ms)
                    IN  /\ out[n].name = zones[kept[n]].name
                        /\ out[n].delta_ms = change
                        /\ out[n].type = "gain" <=> QLess(change, QInt(0))
                        /\ out[n].type = "loss" <=> ~QLess(change, QInt(0))

\* the empty table compute_lap_delta returns for two laps without a
\* common range was given with one zone, and KeyError was raised
C23_Witness ==
    /\ Returned("compute_corner_deltas")
    /\ fin.delta_df = EmptyFrame
    /\ Len(fin.corners.items) = 1
    /\ fout[1] = Raise("KeyError")

\* the samples of a lap in distance order
ByDistance(df) ==
    SortedRows(compute_distance_along_lap(df).rows, <<"dist_along_lap">>)

\* the time at which a lap is at distance d: on the line between the two
\* samples around d
TimeAt(df, d) ==
    LET rows == ByDistance(df)
        around == {i \in 1..(Len(rows) - 1) :
                      /\ QLeq(rows[i].dist_along_lap, d)
                      /\ QLeq(d, rows[i + 1].dist_along_lap)
                      /\ rows[i].dist_along_lap # rows[i + 1].dist_along_lap}
        i == CHOOSE i \in around : TRUE
    IN  QAdd(rows[i].time_stamp,
             QMul(QSub(d, rows[i].dist_along_lap),
                  QDiv(QSub(rows[i + 1].time_stamp, rows[i].time_stamp),
                       QSub(rows[i + 1].dist_along_lap,
                            rows[i].dist_along_lap))))

\* compute_lap_delta has returned a table with rows
DeltaReturned == Returned("compute_lap_delta") /\ ~IsEmpty(fout[1])

\* C24: in every non-empty result, delta_ms at each grid point is lap B's
\* time there minus lap A's, times 1000, negative exactly when B is there
\* earlier; cumulative_delta is the running sum: its first entry is the
\* first delta and each further entry exceeds the previous by that point's
\* delta.
C24_DeltaAndRunningSum ==
    DeltaReturned =>
        LET out == fout[1].rows
            tA(k) == TimeAt(fin.lap_a_data, out[k].distance)
            tB(k) == TimeAt(fin.lap_b_data, out[k].distance)
        IN  /\ \A k \in DOMAIN out :
                /\ out[k].delta_ms = QMul(QSub(tB(k), tA(k)), QInt(1000))
                /\ QLess(out[k].delta_ms, QInt(0)) <=> QLess(tB(k), tA(k))
            /\ out[1].cumulative_delta = out[1].delta_ms
            /\ \A k \in 2..Len(out) :
                QSub(out[k].cumulative_delta, out[k - 1].cumulative_delta)
                    = out[k].delta_ms

\* two laps were compared on three grid points; lap B is later at each,
\* by more at the end than at the start, and the sum has run over all three
C24_Witness ==
    /\ DeltaReturned
    /\ Len(fout[1].rows) = 3
    /\ QLess(QInt(0), fout[1].rows[1].delta_ms)
    /\ QLess(fout[1].rows[1].delta_ms, fout[1].rows[3].delta_ms)
    /\ fout[1].rows[3].cumulative_delta =
          QAdd(QAdd(fout[1].rows[1].delta_ms, fout[1].rows[2].delta_ms),
               fout[1].rows[3].delta_ms)

\* the grid of a result lies inside both laps' distance ranges
GridInsideBoth ==
    \A k \in DOMAIN fout[1].rows :
        \A df \in {fin.lap_a_data, fin.lap_b_data} :
            /\ QLeq(SeqMin(Distances(df)), fout[1].rows[k].distance)
            /\ QLeq(fout[1].rows[k].distance, SeqMax(Distances(df)))

\* the grid is evenly spaced and increasing
GridUniform ==
    LET g == [k \in DOMAIN fout[1].rows |-> fout[1].rows[k].distance]
    IN  \A k \in 2..Len(g) :
            /\ QLess(g[k - 1], g[k])
            /\ QSub(g[k], g[k - 1]) = QSub(g[2], g[1])

\* C25 (as claimed): in every non-empty result the grid has exactly
\* num_points points, is uniformly spaced and increasing, starts at low
\* and ends at high, and every grid point lies inside both laps' ranges.
C25_GridAsClaimed ==
    DeltaReturned =>
        /\ Len(fout[1].rows) = fin.num_points
        /\ GridUniform
        /\ fout[1].rows[1].distance = Low(fin.lap_a_data, fin.lap_b_data)
        /\ fout[1].rows[Len(fout[1].rows)].distance
              = High(fin.lap_a_data, fin.lap_b_data)
        /\ GridInsideBoth

\* C25 (amended): the same for num_points >= 2; with num_points = 1 the
\* grid is the single point low, which is not high.
C25_Grid ==
    DeltaReturned =>
        /\ Len(fout[1].rows) = fin.num_points
        /\ GridUniform
        /\ fout[1].rows[1].distance = Low(fin.lap_a_data, fin.lap_b_data)
        /\ fin.num_points >= 2 =>
              fout[1].rows[Len(fout[1].rows)].distance
                  = High(fin.lap_a_data, fin.lap_b_data)
        /\ fin.num_points = 1 =>
              QLess(fout[1].rows[1].distance,
                    High(fin.lap_a_data, fin.lap_b_data))
        /\ GridInsideBoth

\* a grid of three points over laps whose common range is a strict part
\* of lap B's: it starts at low, ends at high, and high is below B's
\* largest distance
C25_Witness ==
    /\ DeltaReturned
    /\ fin.num_points = 3
    /\ fout[1].rows[3].distance = High(fin.lap_a_data, fin.lap_b_data)
    /\ QLess(fout[1].rows[3].distance, SeqMax(Distances(fin.lap_b_data)))
    /\ QLess(QInt(0), fout[1].rows[1].distance)

\* C26 (as claimed): parse_session_data reports 'unavailable' exactly when
\* the buffer is shorter than the 28-byte header plus the session segment,
\* and for longer buffers returns the session decoded from the bytes that
\* immediately follow the 28-byte header.
C26_SessionAfterHeader ==
    Returned("parse_session_data") =>
        /\ ~IsResult(fout[1]) <=> fin.packet.len < HeaderSize + SessionSize
        /\ IsResult(fout[1]) => fout[1] = SessionRecord

\* a buffer of 29 + 18 bytes was parsed: the weather returned is the
\* byte sent as the track temperature, one byte after the weather
C26_Witness ==
    /\ Returned("parse_session_data")
    /\ fin.packet.len = SessionHeaderSize + SessionSize
    /\ IsResult(fout[1])
    /\ fout[1].weather = SessionRecord.track_temperature
    /\ fout[1].weather # SessionRecord.weather

\* ------------------------------------- TelemetryState under construction
\*
\* The module is imported by the main thread, which runs
\* "state = TelemetryState()"; once the import is over, other threads call
\* TelemetryState() while the writer updates the store.  __new__ and
\* __init__ run statement by statement; the field assignments of the body
\* of __init__ are one step.

Main == "main"
Constructors == Readers \cup {Main}

Pending == [status |-> "pending"]

ReturnedObject(o) == [status |-> "returned", object |-> o]

AttributeError == [status |-> "raised", error |-> "AttributeError"]

\* an attribute that does not exist yet
Unset == <<>>

\* Before the import: no object, no field, no call made.
InitSingleton ==
    /\ now = ClockStart
    /\ telemetry = Unset
    /\ lap_data = Unset
    /\ session = Unset
    /\ last_update_time = Unset
    /\ is_connected = Unset
    /\ start_time = Unset
    /\ history_index = Unset
    /\ history_count = Unset
    /\ buffer = Unset
    /\ lists = <<>>
    /\ InitGhost
    /\ InitCaller
    /\ InitNoListener
    /\ InitNoPure
    /\ lock = "free"
    /\ pc = [t \in Threads \cup Constructors |-> "idle"]
    /\ local = [t \in Threads \cup Constructors |-> <<>>]
    /\ committed = <<>>
    /\ _instance = None
    /\ _initialized = <<>>
    /\ objects = 0
    /\ init_runs = 0
    /\ constructed = [t \in Constructors |-> Pending]

\* always: the import lock is not modelled
ImportedOrNot == TRUE

\* the import of telemetry_state is over: its last statement,
\* "state = TelemetryState()", has returned or raised, and the class can be
\* reached by other threads
Imported == constructed[Main].status # "pending"

\* the fields the body of __init__ assigns exist
FieldsExist == init_runs >= 1

\* what a step of a construction leaves alone
ConstructFrame == UNCHANGED <<now, ghostVars, callerVars, local, committed,
                              listenerVars, pureVars>>

\* a thread calls TelemetryState()
ConstructCall(t) ==
    /\ pc[t] = "idle"
    /\ constructed[t] = Pending
    /\ t = Main \/ Imported
    /\ Goto(t, "new_check")
    /\ UNCHANGED <<storeVars, lists, lock, singletonVars>>
    /\ ConstructFrame

\* __new__: "if cls._instance is None", outside the lock
NewCheck(t) ==
    /\ pc[t] = "new_check"
    /\ Goto(t, IF _instance = None THEN "new_acquire" ELSE "init_check")
    /\ UNCHANGED <<storeVars, lists, lock, singletonVars>>
    /\ ConstructFrame

\* "with cls._lock"
NewAcquire(t) ==
    /\ pc[t] = "new_acquire"
    /\ Acquire(t)
    /\ Goto(t, "new_check_again")
    /\ UNCHANGED <<storeVars, lists, singletonVars>>
    /\ ConstructFrame

\* "if cls._instance is None", inside the lock
NewCheckAgain(t) ==
    /\ pc[t] = "new_check_again"
    /\ Goto(t, IF _instance = None THEN "new_allocate" ELSE "new_release")
    /\ UNCHANGED <<storeVars, lists, lock, singletonVars>>
    /\ ConstructFrame

\* "cls._instance = super().__new__(cls)": a new object without attributes
NewAllocate(t) ==
    /\ pc[t] = "new_allocate"
    /\ objects' = objects + 1
    /\ _instance' = Some(objects + 1)
    /\ Goto(t, "new_flag")
    /\ UNCHANGED <<storeVars, lists, lock, _initialized, init_runs,
                   constructed>>
    /\ ConstructFrame

\* "cls._instance._initialized = False"
NewFlag(t) ==
    /\ pc[t] = "new_flag"
    /\ _initialized' = (_instance[1] :> FALSE) @@ _initialized
    /\ Goto(t, "new_release")
    /\ UNCHANGED <<storeVars, lists, lock, _instance, objects, init_runs,
                   constructed>>
    /\ ConstructFrame

\* the end of the "with" block
NewRelease(t) ==
    /\ pc[t] = "new_release"
    /\ lock' = "free"
    /\ Goto(t, "init_check")
    /\ UNCHANGED <<storeVars, lists, singletonVars>>
    /\ ConstructFrame

\* "return cls._instance", then __init__ on the object returned:
\* "if self._initialized: return"; the attribute may not exist yet
InitCheck(t) ==
    /\ pc[t] = "init_check"
    /\ LET self == _instance[1]
       IN  IF self \notin DOMAIN _initialized
           THEN /\ constructed' = [constructed EXCEPT ![t] = AttributeError]
                /\ Goto(t, "idle")
                /\ UNCHANGED local
           ELSE IF _initialized[self]
           THEN /\ constructed' =
                      [constructed EXCEPT ![t] = ReturnedObject(self)]
                /\ Goto(t, "idle")
                /\ UNCHANGED local
           ELSE /\ Goto(t, "init_flag")
                /\ local' = [local EXCEPT ![t] = self]
                /\ UNCHANGED constructed
    /\ UNCHANGED <<storeVars, lists, lock, _instance, _initialized, objects,
                   init_runs>>
    /\ UNCHANGED <<now, ghostVars, callerVars, committed, listenerVars,
                   pureVars>>

\* "self._initialized = True"
InitFlag(t) ==
    /\ pc[t] = "init_flag"
    /\ _initialized' = [_initialized EXCEPT ![local[t]] = TRUE]
    /\ Goto(t, "init_body")
    /\ UNCHANGED <<storeVars, lists, lock, _instance, objects, init_runs,
                   constructed>>
    /\ ConstructFrame

\* the rest of the body of __init__: every field is assigned its initial
\* value, the tyre temperatures a new list; the call returns the object
InitBody(t) ==
    /\ pc[t] = "init_body"
    /\ LET o == Cardinality(DOMAIN lists)
       IN  /\ lists' = (o :> <<0, 0, 0, 0>>) @@ lists
           /\ telemetry' = [InitTelemetry EXCEPT !.tyres_surface_temp = o]
    /\ lap_data' = InitLapData
    /\ session' = InitSession
    /\ last_update_time' = 0
    /\ is_connected' = FALSE
    /\ start_time' = now
    /\ history_index' = 0
    /\ history_count' = 0
    /\ buffer' = [i \in Slots |-> ZeroRow]
    /\ init_runs' = init_runs + 1
    /\ constructed' = [constructed EXCEPT ![t] = ReturnedObject(local[t])]
    /\ Goto(t, "idle")
    /\ local' = [local EXCEPT ![t] = <<>>]
    /\ UNCHANGED <<lock, _instance, _initialized, objects>>
    /\ UNCHANGED <<now, ghostVars, callerVars, committed, listenerVars,
                   pureVars>>

Construct(t) ==
    \/ ConstructCall(t)
    \/ NewCheck(t) \/ NewAcquire(t) \/ NewCheckAgain(t) \/ NewAllocate(t)
    \/ NewFlag(t) \/ NewRelease(t)
    \/ InitCheck(t) \/ InitFlag(t) \/ InitBody(t)

\* the writer updates the store through the object once its fields exist
WriterUpdates ==
    /\ FieldsExist
    /\ WriterStep

NextSingleton ==
    \/ \E t \in Constructors : Construct(t)
    \/ WriterUpdates

SpecSingleton == InitSingleton /\ [][NextSingleton]_vars

\* a construction takes a step
Constructing == \E t \in Constructors : pc'[t] # pc[t]

\* C28: TelemetryState is a singleton under concurrent construction: every
\* call returns the same object (none raises), the body of __init__ runs
\* exactly once, and a construction after or during updates leaves the
\* latest records, the history rows, the cursor and the count as they are.
C28_Singleton ==
    [][ /\ \A t \in Constructors :
            /\ constructed'[t].status # "raised"
            /\ constructed'[t].status = "returned" =>
                  /\ constructed'[t].object = _instance'[1]
                  /\ constructed'[t].object = constructed'[Main].object
                  /\ init_runs' = 1
        /\ init_runs' <= 1
        /\ objects' <= 1
        /\ (FieldsExist /\ Constructing) =>
              UNCHANGED <<telemetry, lap_data, session, buffer,
                          history_index, history_count>> ]_vars

\* one thread has called TelemetryState() after the import and got the
\* object, another is about to enter __init__ while the writer is inside
\* its second update; the first update's row is in the history
C28_Witness ==
    /\ constructed["reader1"] = ReturnedObject(1)
    /\ pc["reader2"] = "init_check"
    /\ pc[Writer] = "ut_buffer"
    /\ history_count = 1
    /\ init_runs = 1

\* C27 (as claimed): a stop request is never lost: in every interleaving
\* of stop() with the listener thread, stop() between start() and the
\* first statement of run() included, once stop() has returned the running
\* flag stays false and the loop begins no further receive.
C27_StopNeverLost ==
    [][ stop_called => /\ ~running'
                       /\ lpc' = "recv" => lpc = "recv" ]_vars

\* stop() returned before run() began; the thread has since set the flag
\* again and is blocked in a receive it began after the stop
C27_Witness ==
    /\ stop_called
    /\ running
    /\ lpc = "recv"
    /\ received = 0
====
